---- MODULE Spec2Model ----
(***************************************************************************)
(* Model of the SLP transaction precondition checker                       *)
(* (electroncash/slp_checker.py, SlpTransactionChecker.check_tx_slp) and   *)
(* of the command paths that call it before signing                        *)
(* (electroncash/commands.py, Commands._mktx and Commands._mktx_slp).      *)
(***************************************************************************)
EXTENDS Integers, Sequences, FiniteSets, TLC

\* ------------------------------------------------------------- bounds
\* Largest token quantity carried by a record, an output or a burn amount.
MaxQty == 2
\* Largest number of inputs of a candidate transaction.
MaxInputs == 2
MaxGraphs == 2
MaxKills == 1

\* ------------------------------------------------------------- values
\* Python's None for an optional integer is the empty sequence, an integer
\* n is <<n>>.
None == <<>>
Some(n) == <<n>>
\* Python truthiness of an optional integer: None and 0 are false.
Truthy(opt) == opt # None /\ opt[1] # 0

\* The 'qty' / 'token_value' of a token output is an integer or the string
\* 'MINT_BATON'; the string is represented by -1, every integer quantity is
\* >= 0.
MINT_BATON == -1
\* isinstance(q, int)
IsInt(q) == q # MINT_BATON

\* tx.outputs()[i] is (type, address): type 2 is a script output
\* (slp_checker.py:163), an address carries a kind.
TYPE_ADDRESS == "TYPE_ADDRESS"
TYPE_SCRIPT == "TYPE_SCRIPT"
ADDR_P2PKH == "ADDR_P2PKH"
ADDR_P2SH == "ADDR_P2SH"
\* kind of an output that is neither P2PKH nor P2SH
KIND_OTHER == "KIND_OTHER"

\* coin['is_in_txn']: the key is absent until the checker sets it to True.
KEY_ABSENT == "absent"
KEY_TRUE == "True"

\* Outcome of parseSlpOutputScript on the first output of a transaction:
\* a message with a transaction_type, or one of the two parsing errors.
InvalidMsg == [transaction_type |-> "SlpInvalidOutputMessage"]
UnsupportedMsg == [transaction_type |-> "SlpUnsupportedSlpTokenType"]
SendMsg(tid, outs) ==
    [transaction_type |-> "SEND", token_id_hex |-> tid, token_output |-> outs]
MintMsg(tid, baton, q) ==
    [transaction_type |-> "MINT", token_id_hex |-> tid,
     mint_baton_vout |-> baton, additional_token_quantity |-> q]
GenesisMsg(baton, q) ==
    [transaction_type |-> "GENESIS",
     mint_baton_vout |-> baton, initial_token_mint_quantity |-> q]
\* except SlpParsingError (both errors are SlpParsingError subclasses)
IsParsingError(m) ==
    m.transaction_type \in {"SlpInvalidOutputMessage", "SlpUnsupportedSlpTokenType"}

\* ------------------------------------------------------------- outcomes
\* An outcome of check_tx_slp: the class of the exception raised and the
\* raise site (the rule violated), or the value True.
Raise(kind, rule) == [kind |-> kind, rule |-> rule]
NoErr == [kind |-> "none", rule |-> "none"]
ReturnTrue == [kind |-> "True", rule |-> "passed"]
NotCalled == [kind |-> "not_called", rule |-> "not_called"]

\* The exception classes of slp_checker.py that derive from
\* SlpTransactionValidityError, and those that derive from Exception only.
ValidityErrorKinds ==
    {"SlpMissingInputRecord", "NonSlpTransactionHasSlpInputs",
     "GenesisHasSlpInputs", "SlpWrongTokenID", "SlpInputsTooLow",
     "SlpInputsTooHigh", "MissingCoinToBeBurned", "InvalidBurnAmount",
     "SlpNonMintInput", "MissingMintBatonOutpoint"}
OtherErrorKinds ==
    {"MissingTokenReceiverOutpoint", "BadSlpOutpointType",
     "UnsupportedSlpTokenType"}

\* Sum of a sequence of integers: sum(slp_outputs).
RECURSIVE SumSeq(_)
SumSeq(s) == IF s = <<>> THEN 0 ELSE Head(s) + SumSeq(Tail(s))

\* The key wallet._slp_txo[addr][prev_out][prev_n] of an input.
TxoKey(txo) == <<txo.address, txo.prevout_hash, txo.prevout_n>>

\* ------------------------------------------------------------- arguments
\* Lines 13-16: the burn arguments must come together.
BurnArgsCheck(coins, amt) ==
    IF coins # <<>> /\ amt = None
    THEN Raise("InvalidBurnAmount", "burn_args_missing_amt")
    ELSE IF Truthy(amt) /\ coins = <<>>
    THEN Raise("InvalidBurnAmount", "burn_args_missing_coins")
    ELSE NoErr

\* ------------------------------------------------------------- step 1
\* Step1Exempt that exempts every index but 1 of a GENESIS or MINT, the
\* declared baton index included.
Step1ExemptBatonIgnored(m, prev_n) ==
    IF m.transaction_type = "SEND"
    THEN \/ prev_n >= Len(m.token_output)
         \/ m.token_output[prev_n + 1] = 0
    ELSE IF m.transaction_type \in {"GENESIS", "MINT"}
    THEN \/ prev_n # 1
         \/ m.transaction_type = "MINT" /\ prev_n = 1
              /\ m.additional_token_quantity = 0
         \/ m.transaction_type = "GENESIS" /\ prev_n = 1
              /\ m.initial_token_mint_quantity = 0
    ELSE FALSE

\* Lines 38-56: the spent outpoint of a source transaction carries no token
\* value, so no record is required (the `continue` branches).
Step1Exempt(m, prev_n) ==
    IF m.transaction_type = "SEND"
    THEN \/ prev_n >= Len(m.token_output)
         \/ m.token_output[prev_n + 1] = 0
    ELSE IF m.transaction_type \in {"GENESIS", "MINT"}
    THEN \/ Truthy(m.mint_baton_vout) /\ prev_n \notin {1, m.mint_baton_vout[1]}
         \/ ~Truthy(m.mint_baton_vout) /\ prev_n # 1
         \/ m.transaction_type = "MINT" /\ prev_n = 1
              /\ m.additional_token_quantity = 0
         \/ m.transaction_type = "GENESIS" /\ prev_n = 1
              /\ m.initial_token_mint_quantity = 0
    ELSE FALSE

\* Step1Input without the lookup in wallet._slp_txo.
Step1InputNoRecordLookup(transactions, slp_txo, txo) ==
    IF txo.prevout_hash \notin DOMAIN transactions
    THEN Raise("Exception", "missing_ancestor_tx")
    ELSE IF transactions[txo.prevout_hash].transaction_type = "SlpUnsupportedSlpTokenType"
    THEN Raise("UnsupportedSlpTokenType", "unsupported_input_type")
    ELSE NoErr

\* Lines 21-62 for one input.
Step1Input(transactions, slp_txo, txo) ==
    IF txo.prevout_hash \notin DOMAIN transactions
    THEN Raise("Exception", "missing_ancestor_tx")
    ELSE LET m == transactions[txo.prevout_hash] IN
         IF m.transaction_type = "SlpInvalidOutputMessage" THEN NoErr
         ELSE IF m.transaction_type = "SlpUnsupportedSlpTokenType"
         THEN Raise("UnsupportedSlpTokenType", "unsupported_input_type")
         ELSE IF Step1Exempt(m, txo.prevout_n) THEN NoErr
         ELSE IF TxoKey(txo) \in DOMAIN slp_txo THEN NoErr
         ELSE Raise("SlpMissingInputRecord", "missing_ancestor_record")

\* Lines 19-62: the inputs in order, the first failure is raised.
RECURSIVE Step1(_, _, _, _)
Step1(transactions, slp_txo, inputs, i) ==
    IF i > Len(inputs) THEN NoErr
    ELSE LET e == Step1Input(transactions, slp_txo, inputs[i]) IN
         IF e # NoErr THEN e ELSE Step1(transactions, slp_txo, inputs, i + 1)

\* ------------------------------------------------------------- burn list
\* BurnAllowed that accepts any input as soon as a burn list is given.
BurnAllowedByAnyList(coins, txo) == coins # <<>>

\* Lines 86-89 and 214-217: is some coin of the burn list this outpoint.
BurnAllowed(coins, txo) ==
    \E k \in DOMAIN coins :
        /\ coins[k].prevout_hash = txo.prevout_hash
        /\ coins[k].prevout_n = txo.prevout_n

\* Lines 86-89 and 214-217: every matching coin gets c['is_in_txn'] = True.
MarkCoins(coins, txo) ==
    [k \in DOMAIN coins |->
        IF /\ coins[k].prevout_hash = txo.prevout_hash
           /\ coins[k].prevout_n = txo.prevout_n
        THEN [coins[k] EXCEPT !.is_in_txn = KEY_TRUE]
        ELSE coins[k]]

\* ------------------------------------------------------------- step 3a
\* Lines 73-94: a transaction without token metadata may spend recorded
\* token outputs only when they are in the burn list.
RECURSIVE Step3aInputs(_, _, _, _)
Step3aInputs(slp_txo, inputs, coins, i) ==
    IF i > Len(inputs) THEN [coins |-> coins, err |-> NoErr]
    ELSE IF TxoKey(inputs[i]) \in DOMAIN slp_txo
    THEN IF ~BurnAllowed(coins, inputs[i])
         THEN [coins |-> coins,
               err |-> Raise("NonSlpTransactionHasSlpInputs", "unspecified_slp_inputs")]
         ELSE Step3aInputs(slp_txo, inputs, MarkCoins(coins, inputs[i]), i + 1)
    ELSE Step3aInputs(slp_txo, inputs, coins, i + 1)

\* Lines 97-109: the loop over the burn list.  The comparison with
\* amt_to_burn is inside the loop body and is reached only for a coin that
\* is not counted.
RECURSIVE Step3aBurnTotal(_, _, _, _)
Step3aBurnTotal(coins, amt, k, total_burn) ==
    IF k > Len(coins) THEN NoErr
    ELSE IF coins[k].is_in_txn = KEY_ABSENT
    THEN Raise("MissingCoinToBeBurned", "coin_to_burn_not_spent")
    ELSE IF coins[k].is_in_txn = KEY_TRUE /\ IsInt(coins[k].token_value)
    THEN Step3aBurnTotal(coins, amt, k + 1, total_burn + coins[k].token_value)
    ELSE IF total_burn # amt[1]
    THEN Raise("InvalidBurnAmount", "burn_amount_mismatch")
    ELSE Step3aBurnTotal(coins, amt, k + 1, total_burn)

\* Lines 72-109.
Step3a(slp_txo, tx, coins, amt) ==
    LET r == Step3aInputs(slp_txo, tx.inputs, coins, 1) IN
    IF r.err # NoErr THEN r
    ELSE IF coins # <<>>
    THEN [coins |-> r.coins, err |-> Step3aBurnTotal(r.coins, amt, 1, 0)]
    ELSE r

\* ------------------------------------------------------------- SEND
\* SendInputs that compares the token id of integer quantities only.
RECURSIVE SendInputsIntegerOnly(_, _, _, _, _)
SendInputsIntegerOnly(slp_txo, inputs, tid, i, input_slp_qty) ==
    IF i > Len(inputs) THEN [qty |-> input_slp_qty, err |-> NoErr]
    ELSE IF TxoKey(inputs[i]) \notin DOMAIN slp_txo
    THEN SendInputsIntegerOnly(slp_txo, inputs, tid, i + 1, input_slp_qty)
    ELSE LET slp_input == slp_txo[TxoKey(inputs[i])] IN
         IF slp_input.qty = 0 \/ ~IsInt(slp_input.qty)
         THEN SendInputsIntegerOnly(slp_txo, inputs, tid, i + 1, input_slp_qty)
         ELSE IF slp_input.token_id # tid
         THEN [qty |-> input_slp_qty + slp_input.qty,
               err |-> Raise("SlpWrongTokenID", "wrong_token_id")]
         ELSE SendInputsIntegerOnly(slp_txo, inputs, tid, i + 1,
                                    input_slp_qty + slp_input.qty)

\* Lines 122-141: the recorded inputs of a SEND.  A record of quantity 0 is
\* skipped before its token id is looked at; an integer quantity is added
\* before the token id is compared.
RECURSIVE SendInputs(_, _, _, _, _)
SendInputs(slp_txo, inputs, tid, i, input_slp_qty) ==
    IF i > Len(inputs) THEN [qty |-> input_slp_qty, err |-> NoErr]
    ELSE IF TxoKey(inputs[i]) \notin DOMAIN slp_txo
    THEN SendInputs(slp_txo, inputs, tid, i + 1, input_slp_qty)
    ELSE LET slp_input == slp_txo[TxoKey(inputs[i])]
             added == IF IsInt(slp_input.qty)
                      THEN input_slp_qty + slp_input.qty
                      ELSE input_slp_qty
         IN  IF slp_input.qty = 0
             THEN SendInputs(slp_txo, inputs, tid, i + 1, input_slp_qty)
             ELSE IF slp_input.token_id # tid
             THEN [qty |-> added,
                   err |-> Raise("SlpWrongTokenID", "wrong_token_id")]
             ELSE SendInputs(slp_txo, inputs, tid, i + 1, added)

\* SendQuantities that lets surplus input through when no burn is declared.
SendQuantitiesSurplusAllowed(input_slp_qty, slp_outputs, coins, amt) ==
    IF input_slp_qty < SumSeq(slp_outputs)
    THEN Raise("SlpInputsTooLow", "inputs_too_low")
    ELSE IF coins # <<>> /\ input_slp_qty - amt[1] # SumSeq(slp_outputs)
    THEN Raise("InvalidBurnAmount", "burn_amount_mismatch")
    ELSE NoErr

\* SendQuantities that accepts a burn amount smaller than the surplus.
SendQuantitiesBurnAtMost(input_slp_qty, slp_outputs, coins, amt) ==
    IF input_slp_qty < SumSeq(slp_outputs)
    THEN Raise("SlpInputsTooLow", "inputs_too_low")
    ELSE IF coins # <<>> /\ input_slp_qty - amt[1] < SumSeq(slp_outputs)
    THEN Raise("InvalidBurnAmount", "burn_amount_mismatch")
    ELSE IF coins = <<>> /\ input_slp_qty > SumSeq(slp_outputs)
    THEN Raise("SlpInputsTooHigh", "inputs_too_high")
    ELSE NoErr

\* Lines 143-151: input quantity against the declared outputs.
SendQuantities(input_slp_qty, slp_outputs, coins, amt) ==
    IF input_slp_qty < SumSeq(slp_outputs)
    THEN Raise("SlpInputsTooLow", "inputs_too_low")
    ELSE IF coins # <<>> /\ input_slp_qty - amt[1] # SumSeq(slp_outputs)
    THEN Raise("InvalidBurnAmount", "burn_amount_mismatch")
    ELSE IF coins = <<>> /\ input_slp_qty > SumSeq(slp_outputs)
    THEN Raise("SlpInputsTooHigh", "inputs_too_high")
    ELSE NoErr

\* SendOutputs that does not look at the last declared index.
RECURSIVE SendOutputsButLast(_, _, _)
SendOutputsButLast(outputs, n, i) ==
    IF i >= n - 1 THEN NoErr
    ELSE IF i >= Len(outputs)
    THEN Raise("MissingTokenReceiverOutpoint", "missing_output")
    ELSE IF i >= 1 /\ outputs[i + 1].kind \notin {ADDR_P2PKH, ADDR_P2SH}
    THEN Raise("BadSlpOutpointType", "wrong_output_type")
    ELSE SendOutputsButLast(outputs, n, i + 1)

\* Lines 153-167: every index of the declared token outputs, in order; i is
\* the index as the code counts it (from 0).
RECURSIVE SendOutputs(_, _, _)
SendOutputs(outputs, n, i) ==
    IF i >= n THEN NoErr
    ELSE IF i >= Len(outputs)
    THEN Raise("MissingTokenReceiverOutpoint", "missing_output")
    ELSE IF i = 0
    THEN IF outputs[1].type # TYPE_SCRIPT
         THEN Raise("AssertionError", "metadata_output_not_script")
         ELSE SendOutputs(outputs, n, i + 1)
    ELSE IF outputs[i + 1].kind \notin {ADDR_P2PKH, ADDR_P2SH}
    THEN Raise("BadSlpOutpointType", "wrong_output_type")
    ELSE SendOutputs(outputs, n, i + 1)

\* Lines 113-167.
StepSend(slp_txo, tx, coins, amt) ==
    LET slp_outputs == tx.slp_msg.token_output
        r == SendInputs(slp_txo, tx.inputs, tx.slp_msg.token_id_hex, 1, 0)
        q == SendQuantities(r.qty, slp_outputs, coins, amt)
    IN  IF r.err # NoErr THEN r.err
        ELSE IF q # NoErr THEN q
        ELSE SendOutputs(tx.outputs, Len(slp_outputs), 0)

\* ------------------------------------------------------------- MINT
\* StepMintInputs that accepts a baton of any token id.
RECURSIVE StepMintInputsAnyBaton(_, _, _, _)
StepMintInputsAnyBaton(slp_txo, inputs, tid, i) ==
    IF i > Len(inputs) THEN NoErr
    ELSE IF TxoKey(inputs[i]) \notin DOMAIN slp_txo
    THEN StepMintInputsAnyBaton(slp_txo, inputs, tid, i + 1)
    ELSE LET slp_input == slp_txo[TxoKey(inputs[i])] IN
         IF slp_input.qty = 0
         THEN StepMintInputsAnyBaton(slp_txo, inputs, tid, i + 1)
         ELSE IF slp_input.qty # MINT_BATON
         THEN Raise("SlpNonMintInput", "non_baton_input_in_mint")
         ELSE StepMintInputsAnyBaton(slp_txo, inputs, tid, i + 1)

\* Lines 174-193: a MINT may spend only batons of its own token id.
RECURSIVE StepMintInputs(_, _, _, _)
StepMintInputs(slp_txo, inputs, tid, i) ==
    IF i > Len(inputs) THEN NoErr
    ELSE IF TxoKey(inputs[i]) \notin DOMAIN slp_txo
    THEN StepMintInputs(slp_txo, inputs, tid, i + 1)
    ELSE LET slp_input == slp_txo[TxoKey(inputs[i])] IN
         IF slp_input.qty = 0
         THEN StepMintInputs(slp_txo, inputs, tid, i + 1)
         ELSE IF slp_input.qty # MINT_BATON
         THEN Raise("SlpNonMintInput", "non_baton_input_in_mint")
         ELSE IF slp_input.token_id # tid
         THEN Raise("SlpWrongTokenID", "wrong_token_id")
         ELSE StepMintInputs(slp_txo, inputs, tid, i + 1)

\* ------------------------------------------------------------- GENESIS
\* Lines 200-222: a GENESIS may spend recorded token outputs of nonzero
\* quantity only when they are in the burn list.
RECURSIVE StepGenesisInputs(_, _, _, _)
StepGenesisInputs(slp_txo, inputs, coins, i) ==
    IF i > Len(inputs) THEN [coins |-> coins, err |-> NoErr]
    ELSE IF TxoKey(inputs[i]) \notin DOMAIN slp_txo
    THEN StepGenesisInputs(slp_txo, inputs, coins, i + 1)
    ELSE IF slp_txo[TxoKey(inputs[i])].qty = 0
    THEN StepGenesisInputs(slp_txo, inputs, coins, i + 1)
    ELSE IF ~BurnAllowed(coins, inputs[i])
    THEN [coins |-> coins,
          err |-> Raise("NonSlpTransactionHasSlpInputs", "unspecified_slp_inputs")]
    ELSE StepGenesisInputs(slp_txo, inputs, MarkCoins(coins, inputs[i]), i + 1)

\* Lines 236-239 and 248-251: the output must be P2PKH or P2SH.
OutpointTypeCheck(out) ==
    IF out.kind \notin {ADDR_P2PKH, ADDR_P2SH}
    THEN Raise("BadSlpOutpointType", "wrong_output_type")
    ELSE NoErr

\* Lines 241-251: the token receiver output, index 1.
ReceiverOutputCheck(outputs) ==
    IF Len(outputs) < 2
    THEN Raise("MissingTokenReceiverOutpoint", "missing_output")
    ELSE OutpointTypeCheck(outputs[2])

\* Lines 224-251: the baton output and the receiver output of a GENESIS or
\* MINT.  The receiver check is nested in the branch of a declared baton.
StepMintGenesisOutputs(msg, outputs) ==
    IF Truthy(msg.mint_baton_vout)
    THEN LET b == msg.mint_baton_vout[1] IN
         IF b >= Len(outputs)
         THEN Raise("MissingMintBatonOutpoint", "missing_baton_output")
         ELSE IF OutpointTypeCheck(outputs[b + 1]) # NoErr
         THEN OutpointTypeCheck(outputs[b + 1])
         ELSE ReceiverOutputCheck(outputs)
    ELSE NoErr

\* ------------------------------------------------------------- the check
\* Lines 64-251: steps 2 to 4; the outcome and the burn list as the loops
\* leave it.
Step3(slp_txo, tx, coins, amt) ==
    LET msg == tx.slp_msg IN
    IF IsParsingError(msg) THEN Step3a(slp_txo, tx, coins, amt)
    ELSE IF msg.transaction_type = "SEND"
    THEN [coins |-> coins, err |-> StepSend(slp_txo, tx, coins, amt)]
    ELSE IF msg.transaction_type = "MINT"
    THEN LET e == StepMintInputs(slp_txo, tx.inputs, msg.token_id_hex, 1) IN
         [coins |-> coins,
          err |-> IF e # NoErr THEN e ELSE StepMintGenesisOutputs(msg, tx.outputs)]
    ELSE IF msg.transaction_type = "GENESIS"
    THEN LET r == StepGenesisInputs(slp_txo, tx.inputs, coins, 1) IN
         IF r.err # NoErr THEN r
         ELSE [coins |-> r.coins, err |-> StepMintGenesisOutputs(msg, tx.outputs)]
    ELSE [coins |-> coins, err |-> NoErr]

\* Lines 13-251: every local check, in the order of the code.
LocalChecks(transactions, slp_txo, tx, coins, amt, require_tx_in_wallet) ==
    LET a == BurnArgsCheck(coins, amt)
        s1 == IF require_tx_in_wallet
              THEN Step1(transactions, slp_txo, tx.inputs, 1)
              ELSE NoErr
    IN  IF a # NoErr THEN [coins |-> coins, err |-> a]
        ELSE IF s1 # NoErr THEN [coins |-> coins, err |-> s1]
        ELSE Step3(slp_txo, tx, coins, amt)

\* The answer of SlpPreflightCheck.query: a dict with 'ok', and with
\* 'invalid_reason' when the oracle states one.
PreflightAnswer(ok, invalid_reason) == [ok |-> ok, invalid_reason |-> invalid_reason]
NoAnswer == [ok |-> TRUE, invalid_reason |-> "not queried"]
NoMessage == "no message"

\* Line 257: slp_preflight.get('invalid_reason', json.dumps(slp_preflight)),
\* the %s of the message of the raised Exception.
PreflightMessage(slp_preflight) ==
    IF slp_preflight.invalid_reason # KEY_ABSENT
    THEN slp_preflight.invalid_reason
    ELSE IF slp_preflight.ok THEN "{ok: true}" ELSE "{ok: false}"

\* CheckTxSlp when the oracle is asked whatever the network says.
CheckTxSlpAlwaysQueried(transactions, slp_txo, tx, coins, amt, require_tx_in_wallet, preflight_enabled, slp_preflight) ==
    LET l == LocalChecks(transactions, slp_txo, tx, coins, amt, require_tx_in_wallet)
    IN  IF l.err # NoErr
        THEN [result |-> l.err, coins |-> l.coins, queried |-> FALSE,
              message |-> NoMessage]
        ELSE [result |-> IF slp_preflight.ok THEN ReturnTrue
                         ELSE Raise("Exception", "preflight_rejected"),
              coins |-> l.coins, queried |-> TRUE,
              message |-> IF slp_preflight.ok THEN NoMessage
                          ELSE PreflightMessage(slp_preflight)]

\* Lines 253-261: the pre-flight oracle is asked after the local checks when
\* the network enables it; `slp_preflight` is its answer.
CheckTxSlp(transactions, slp_txo, tx, coins, amt, require_tx_in_wallet, preflight_enabled, slp_preflight) ==
    LET l == LocalChecks(transactions, slp_txo, tx, coins, amt, require_tx_in_wallet)
    IN  IF l.err # NoErr
        THEN [result |-> l.err, coins |-> l.coins, queried |-> FALSE,
              message |-> NoMessage]
        ELSE IF preflight_enabled
        THEN [result |-> IF slp_preflight.ok THEN ReturnTrue
                         ELSE Raise("Exception", "preflight_rejected"),
              coins |-> l.coins, queried |-> TRUE,
              message |-> IF slp_preflight.ok THEN NoMessage
                          ELSE PreflightMessage(slp_preflight)]
        ELSE [result |-> ReturnTrue, coins |-> l.coins, queried |-> FALSE,
              message |-> NoMessage]

\* ------------------------------------------------------------- validator
\* Validator_NFT1 exists twice: src/electroncash/slp_validator_0x01_nft1.py
\* (instances made by GraphContext_NFT1) and the older module-global
\* src/lib/slp_validator_0x01_nft1.py.  The operators of the second carry
\* the prefix lib_.
ELECTRONCASH == "electroncash"
LIB == "lib"

\* A parsed SlpMessage of the validator's inputs: token_type,
\* transaction_type and the op_return_fields of its kind.
NftSend(token_type, tid, outs) ==
    [token_type |-> token_type, transaction_type |-> "SEND",
     token_id_hex |-> tid, token_output |-> outs]
NftGenesis(token_type, baton, decimals, q) ==
    [token_type |-> token_type, transaction_type |-> "GENESIS",
     mint_baton_vout |-> baton, decimals |-> decimals,
     initial_token_mint_quantity |-> q]
NftMint(token_type, tid, q) ==
    [token_type |-> token_type, transaction_type |-> "MINT",
     token_id_hex |-> tid, additional_token_quantity |-> q]
NftCommit(token_type) ==
    [token_type |-> token_type, transaction_type |-> "COMMIT"]

\* myinfo of a GENESIS node is the string 'GENESIS', of a SEND node an integer.
GENESIS == -2
\* self.token_id_hex is None (only with diff_testing_mode, for fuzzing).
NO_TOKEN_ID == "None"

\* What get_info returns: ('prune', validity) or (vin_mask, myinfo, outputs).
Prune(validity) == [kind |-> "prune", validity |-> validity]
Info(vin_mask, myinfo, outputs) ==
    [kind |-> "info", vin_mask |-> vin_mask, myinfo |-> myinfo, outputs |-> outputs]

\* tuple(outputs[:n]) + (None,)*(n - len(outputs)), an entry being None or
\* Some(quantity).
FitOutputs(outputs, n) ==
    [i \in 1..n |-> IF i <= Len(outputs) THEN outputs[i] ELSE None]

\* The declared quantities as list entries.
Declared(token_output) == [i \in DOMAIN token_output |-> Some(token_output[i])]

\* get_info when the token id is compared before the rules of a GENESIS.
get_info_token_id_first(token_id_hex, tx, diff_testing_mode) ==
    LET slpMsg == tx.slp_msg
        kind == slpMsg.transaction_type
        n == tx.n_outputs
        tid == IF kind = "GENESIS" THEN tx.txid ELSE slpMsg.token_id_hex
        mismatch == IF diff_testing_mode
                    THEN token_id_hex # NO_TOKEN_ID /\ tid # token_id_hex
                    ELSE tid # token_id_hex
    IN  IF n < 1 THEN Prune(2)
        ELSE IF kind = UnsupportedMsg.transaction_type THEN Prune(0)
        ELSE IF kind = InvalidMsg.transaction_type THEN Prune(2)
        ELSE IF slpMsg.token_type # 65 THEN Prune(0)
        ELSE IF kind = "MINT" THEN Prune(2)
        ELSE IF kind = "COMMIT" THEN Prune(0)
        ELSE IF mismatch THEN Prune(0)
        ELSE IF kind = "GENESIS" /\ slpMsg.mint_baton_vout # None THEN Prune(2)
        ELSE IF kind = "GENESIS" /\ slpMsg.decimals # 0 THEN Prune(2)
        ELSE IF kind = "GENESIS" /\ slpMsg.initial_token_mint_quantity # 1 THEN Prune(2)
        ELSE IF kind = "SEND"
        THEN Info([i \in 1..tx.n_inputs |-> TRUE], SumSeq(slpMsg.token_output),
                  FitOutputs(Declared(slpMsg.token_output), n))
        ELSE Info([i \in 1..tx.n_inputs |-> FALSE], GENESIS,
                  FitOutputs(<<None, Some(slpMsg.initial_token_mint_quantity)>>, n))

\* electroncash get_info (243-325).  The kinds exclude each other, so the
\* MINT and COMMIT returns of lines 311-314 are tested before the fields
\* of the other kinds are read.
get_info(token_id_hex, tx, diff_testing_mode) ==
    LET slpMsg == tx.slp_msg
        kind == slpMsg.transaction_type
        n == tx.n_outputs
        tid == IF kind = "GENESIS" THEN tx.txid ELSE slpMsg.token_id_hex
        mismatch == IF diff_testing_mode
                    THEN token_id_hex # NO_TOKEN_ID /\ tid # token_id_hex
                    ELSE tid # token_id_hex
    IN  IF n < 1 THEN Prune(2)
        ELSE IF kind = UnsupportedMsg.transaction_type THEN Prune(0)
        ELSE IF kind = InvalidMsg.transaction_type THEN Prune(2)
        ELSE IF slpMsg.token_type # 65 THEN Prune(0)
        ELSE IF kind = "MINT" THEN Prune(2)
        ELSE IF kind = "COMMIT" THEN Prune(0)
        ELSE IF kind = "GENESIS" /\ slpMsg.mint_baton_vout # None THEN Prune(2)
        ELSE IF kind = "GENESIS" /\ slpMsg.decimals # 0 THEN Prune(2)
        ELSE IF kind = "GENESIS" /\ slpMsg.initial_token_mint_quantity # 1 THEN Prune(2)
        ELSE IF mismatch THEN Prune(0)
        ELSE IF kind = "SEND"
        THEN Info([i \in 1..tx.n_inputs |-> TRUE], SumSeq(slpMsg.token_output),
                  FitOutputs(Declared(slpMsg.token_output), n))
        ELSE Info([i \in 1..tx.n_inputs |-> FALSE], GENESIS,
                  FitOutputs(<<None, Some(slpMsg.initial_token_mint_quantity)>>, n))

\* lib get_info (212-290): a SEND must declare exactly <<0, 1>>-shaped
\* outputs (two entries, the second 1), a GENESIS quantity may not exceed 1,
\* and there is no diff_testing_mode.
lib_get_info(token_id_hex, tx) ==
    LET slpMsg == tx.slp_msg
        kind == slpMsg.transaction_type
        n == tx.n_outputs
        tid == IF kind = "GENESIS" THEN tx.txid ELSE slpMsg.token_id_hex
    IN  IF n < 1 THEN Prune(2)
        ELSE IF kind = UnsupportedMsg.transaction_type THEN Prune(0)
        ELSE IF kind = InvalidMsg.transaction_type THEN Prune(2)
        ELSE IF slpMsg.token_type # 65 THEN Prune(0)
        ELSE IF kind = "MINT" THEN Prune(2)
        ELSE IF kind = "COMMIT" THEN Prune(0)
        ELSE IF kind = "SEND" /\ Len(slpMsg.token_output) # 2 THEN Prune(2)
        ELSE IF kind = "SEND" /\ slpMsg.token_output[2] # 1 THEN Prune(2)
        ELSE IF kind = "GENESIS" /\ slpMsg.mint_baton_vout # None THEN Prune(2)
        ELSE IF kind = "GENESIS" /\ slpMsg.decimals # 0 THEN Prune(2)
        ELSE IF kind = "GENESIS" /\ slpMsg.initial_token_mint_quantity > 1 THEN Prune(2)
        ELSE IF tid # token_id_hex THEN Prune(0)
        ELSE IF kind = "SEND"
        THEN Info([i \in 1..tx.n_inputs |-> TRUE], SumSeq(slpMsg.token_output),
                  FitOutputs(Declared(slpMsg.token_output), n))
        ELSE Info([i \in 1..tx.n_inputs |-> FALSE], GENESIS,
                  FitOutputs(<<None, Some(slpMsg.initial_token_mint_quantity)>>, n))

\* What check_needed and validate return: a value, or None.
Returned(value) == [kind |-> "return", value |-> value]
Valid == [kind |-> "decided", ok |-> TRUE, validity |-> 1]
Invalid(validity) == [kind |-> "decided", ok |-> FALSE, validity |-> validity]
Pending == [kind |-> "pending", ok |-> FALSE, validity |-> 0]

\* check_needed when any non-null contribution is needed.
check_needed_any_contribution(myinfo, out_n) ==
    IF myinfo = GENESIS THEN Raise("RuntimeError", "Unexpected")
    ELSE Returned(out_n # None)

\* check_needed (electroncash 328-337, lib 293-302, the same text): out_n
\* is None, the baton marker 'MINT', or an integer.
check_needed(myinfo, out_n) ==
    IF myinfo = GENESIS THEN Raise("RuntimeError", "Unexpected")
    ELSE IF out_n = None \/ out_n = Some(MINT_BATON) THEN Returned(FALSE)
    ELSE Returned(out_n[1] > 0)

\* sum(inp[2] for inp in inputs_info if inp[1] in validities)
InputSum(inputs_info, validities) ==
    SumSeq([i \in DOMAIN inputs_info |->
              IF inputs_info[i].validity \in validities THEN inputs_info[i].qty ELSE 0])

\* Lines 526-536: the quantity the parent transaction carries must be at
\* least 1; an unparseable parent is Invalid(4), and the exception of an
\* unsupported token type is not caught.
ParentQuantityCheck(parent_tx) ==
    LET m == parent_tx.slp_msg
        kind == m.transaction_type
    IN  IF kind = InvalidMsg.transaction_type THEN Invalid(4)
        ELSE IF kind = UnsupportedMsg.transaction_type
        THEN Raise("SlpUnsupportedSlpTokenType", "parent")
        ELSE IF kind = "GENESIS" /\ m.initial_token_mint_quantity < 1 THEN Invalid(3)
        ELSE IF kind = "MINT" /\ m.additional_token_quantity < 1 THEN Invalid(3)
        ELSE IF kind = "SEND" /\ SumSeq(m.token_output) < 1 THEN Invalid(3)
        ELSE Pending

\* Lines 546-563, a SEND node, when the valid inputs alone need not cover
\* the outputs.
ValidateSendUnknownCounted(myinfo, inputs_info) ==
    IF InputSum(inputs_info, {0, 1}) < myinfo THEN Invalid(3)
    ELSE IF InputSum(inputs_info, {1}) > 1
    THEN Raise("Exception", "valid input quantity more than 1")
    ELSE Valid

\* ValidateSend that gives up on a node as soon as its Valid inputs fall
\* short, without waiting for the Unknown ones.
ValidateSendValidOnly(myinfo, inputs_info) ==
    IF InputSum(inputs_info, {1}) < myinfo THEN Invalid(3)
    ELSE IF InputSum(inputs_info, {1}) > 1
    THEN Raise("Exception", "valid input quantity more than 1")
    ELSE Valid

\* Lines 546-563: a SEND node, myinfo is sum(outs).
ValidateSend(myinfo, inputs_info) ==
    IF InputSum(inputs_info, {0, 1}) < myinfo THEN Invalid(3)
    ELSE IF InputSum(inputs_info, {1}) > 1
    THEN Raise("Exception", "valid input quantity more than 1")
    ELSE IF InputSum(inputs_info, {1}) >= myinfo THEN Valid
    ELSE Pending

\* Lines 538-545, a GENESIS node, when the parent's validity is not asked.
ValidateGenesisParentUnchecked(nft_parent_validity, inputs_info) ==
    IF Len(inputs_info) # 0 THEN Raise("RuntimeError", "Unexpected")
    ELSE IF nft_parent_validity > 1 THEN Invalid(nft_parent_validity)
    ELSE Valid

\* Lines 538-545 (lib 413-420): a GENESIS node follows the parent's validity.
ValidateGenesis(nft_parent_validity, inputs_info) ==
    IF Len(inputs_info) # 0 THEN Raise("RuntimeError", "Unexpected")
    ELSE IF nft_parent_validity = 1 THEN Valid
    ELSE IF nft_parent_validity > 1 THEN Invalid(nft_parent_validity)
    ELSE Pending

\* validate when a forced parent validity is not looked at first.
validate_without_parent_gate(is_child_job, nft_child_job, myinfo, inputs_info) ==
    IF ~is_child_job THEN Raise("Exception", "This should never happen")
    ELSE IF Truthy(nft_child_job.forced_failure_val)
    THEN Invalid(nft_child_job.forced_failure_val[1])
    ELSE IF myinfo = 0 THEN Valid
    ELSE IF nft_child_job.nft_parent_tx = None THEN Pending
    ELSE IF ParentQuantityCheck(nft_child_job.nft_parent_tx[1]) # Pending
    THEN ParentQuantityCheck(nft_child_job.nft_parent_tx[1])
    ELSE IF myinfo = GENESIS
    THEN ValidateGenesis(nft_child_job.nft_parent_validity, inputs_info)
    ELSE ValidateSend(myinfo, inputs_info)

\* electroncash validate (506-563): what it returns.  is_child_job is
\* isinstance(job_current, ValidationJobNFT1Child).
validate(is_child_job, nft_child_job, myinfo, inputs_info) ==
    IF ~is_child_job THEN Raise("Exception", "This should never happen")
    ELSE IF nft_child_job.nft_parent_validity > 1
    THEN Invalid(nft_child_job.nft_parent_validity)
    ELSE IF Truthy(nft_child_job.forced_failure_val)
    THEN Invalid(nft_child_job.forced_failure_val[1])
    ELSE IF myinfo = 0 THEN Valid
    ELSE IF nft_child_job.nft_parent_tx = None THEN Pending
    ELSE IF ParentQuantityCheck(nft_child_job.nft_parent_tx[1]) # Pending
    THEN ParentQuantityCheck(nft_child_job.nft_parent_tx[1])
    ELSE IF myinfo = GENESIS
    THEN ValidateGenesis(nft_child_job.nft_parent_validity, inputs_info)
    ELSE ValidateSend(myinfo, inputs_info)

\* Line 522-523: this call of validate starts validate_NFT_parent.
StartsParentValidation(is_child_job, nft_child_job, myinfo) ==
    /\ is_child_job
    /\ nft_child_job.nft_parent_validity <= 1
    /\ ~Truthy(nft_child_job.forced_failure_val)
    /\ myinfo # 0
    /\ nft_child_job.nft_parent_tx = None

\* lib validate (406-433): the validator itself holds nft_parent_tx and
\* nft_parent_validity; a SEND node that is neither short nor covered
\* falls off the end of the function (None).
lib_validate(self, myinfo, inputs_info) ==
    IF self.nft_parent_tx = None THEN Pending
    ELSE IF myinfo = GENESIS
    THEN ValidateGenesis(self.nft_parent_validity, inputs_info)
    ELSE IF InputSum(inputs_info, {0, 1}) < myinfo THEN Invalid(3)
    ELSE IF InputSum(inputs_info, {1}) >= myinfo THEN Valid
    ELSE Pending

\* A ValidationJobNFT1Child as __init__ leaves it (203-215); pc is the
\* position of the validator's thread inside validate, root the myinfo and
\* inputs_info of the node of the job's root transaction.
\* resolved_from is the input list and the decision of the root node before
\* the graph last resolved inputs of it.
\* ref is what the job's weak reference to the wallet resolves to,
\* callback the locals of the nested job's callback while it runs, raised
\* the exception a callback raised in its own thread, error_response the
\* fetch that the network answered with an error.
NewJob(is_child, root) ==
    [pc |-> "idle", is_child |-> is_child, root |-> root, genesis_tx |-> None,
     nft_parent_tx |-> None, nft_parent_validity |-> 0,
     forced_failure_val |-> None, ref |-> "wallet", callback |-> None,
     raised |-> None, error_response |-> None, resolved_from |-> None]

\* Lines 412-420: the record written to wallet.tx_tokinfo for a parent.
ParentTokinfo(parent_tx) ==
    [type |-> parent_tx.slp_msg.token_type,
     transaction_type |-> parent_tx.slp_msg.transaction_type,
     token_id |-> IF parent_tx.slp_msg.transaction_type = "GENESIS"
                  THEN parent_tx.txid ELSE parent_tx.slp_msg.token_id_hex,
     validity |-> 0]

\* Lines 400-410: the parent does not parse, or is not a group-token
\* transaction at the outpoint the child genesis' first input spends.
IsBadParent(parent_tx, nft_parent_idx) ==
    LET m == parent_tx.slp_msg
        kind == m.transaction_type
    IN  \/ kind \in {InvalidMsg.transaction_type, UnsupportedMsg.transaction_type}
        \/ (kind \in {"GENESIS", "MINT"} /\ nft_parent_idx # 1)
        \/ (kind = "SEND" /\ nft_parent_idx > Len(m.token_output) - 1)
        \/ m.token_type # 129

\* Lines 358 and 399: wallet.tx_tokinfo.get(txid, None) is truthy.
HasTokinfo(tokinfo, txid) == txid \in DOMAIN tokinfo

\* wallet.tx_tokinfo[txid] = tti
PutTokinfo(tokinfo, txid, tti) ==
    [t \in DOMAIN tokinfo \cup {txid} |-> IF t = txid THEN tti ELSE tokinfo[t]]

\* Every node of the job is written to the cache, whatever its validity.
SaveValidityOfEveryNode(cache, nodes) ==
    [t \in DOMAIN cache \cup DOMAIN nodes |->
        IF t \in DOMAIN nodes THEN nodes[t] ELSE cache[t]]

\* Lines 165-169 (lib 180-183) of done_callback: wallet.slpv1_validity[t] =
\* val for the nodes of the job whose validity is not 0.
SaveValidity(cache, nodes) ==
    LET decided == {t \in DOMAIN nodes : nodes[t] # 0}
    IN  [t \in DOMAIN cache \cup decided |->
            IF t \in decided THEN nodes[t] ELSE cache[t]]

\* get_graph's choice of the validator of a new graph.  electroncash
\* (44-47): Validator_NFT1 for token type 65, Validator_SLP1 otherwise.  lib
\* (44-47): Validator_SLP1 for 129, Validator_NFT1 for 65, and val is left
\* unbound for any other type.
ValidatorOfGraph(module, token_type) ==
    IF module = ELECTRONCASH
    THEN IF token_type = 65 THEN "Validator_NFT1" ELSE "Validator_SLP1"
    ELSE IF token_type = 129 THEN "Validator_SLP1"
    ELSE IF token_type = 65 THEN "Validator_NFT1"
    ELSE "unbound"

\* The token id setup_job (60-65, lib 80-85) takes from a parsed message.
JobTokenId(txid, msg) ==
    IF msg.transaction_type = "GENESIS" THEN txid ELSE msg.token_id_hex

\* setup_job (56-75) lets the parse errors of the first output through
\* (the handler at 89-93 of make_job is commented out) and returns
\* (None, None) for a transaction type other than GENESIS, MINT and SEND.
IsValidatable(no_outputs, msg) ==
    /\ ~no_outputs
    /\ msg.transaction_type \in {"GENESIS", "MINT", "SEND"}

\* What make_job gives its caller: a job, None, or an exception.
MadeJob == [kind |-> "job", rule |-> "job"]
ReturnedNone == [kind |-> "None", rule |-> "None"]

\* lib get_graph (34-53) binds val only for the token types 129 and 65: for
\* another type of a token that has no graph yet, TokenGraph(val) is an
\* UnboundLocalError.
lib_get_graph_raises(in_graph_db, token_type) ==
    ~in_graph_db /\ token_type \notin {129, 65}

\* lib make_job (98-188) with setup_job (76-95): None after a
\* SlpParsingError or IndexError of setup_job; for a transaction type other
\* than GENESIS, MINT and SEND setup_job returns None and the unpacking at
\* 120 is a TypeError.
lib_make_job(no_outputs, msg, in_graph_db) ==
    IF no_outputs THEN ReturnedNone
    ELSE IF msg.transaction_type \in {InvalidMsg.transaction_type, UnsupportedMsg.transaction_type}
    THEN ReturnedNone
    ELSE IF msg.transaction_type \notin {"GENESIS", "MINT", "SEND"}
    THEN Raise("TypeError", "graph, jobmgr = None")
    ELSE IF lib_get_graph_raises(in_graph_db, msg.token_type)
    THEN Raise("UnboundLocalError", "val")
    ELSE MadeJob

\* electroncash make_job (78-201): setup_job's exceptions are not handled;
\* with (None, None) from setup_job the job is made on graph None and
\* job_mgr.add_job (200) is called on None unless nft_type is 'SLP129_65'.
make_job(no_outputs, msg, nft_type) ==
    IF no_outputs THEN Raise("IndexError", "tx.outputs()[0]")
    ELSE IF msg.transaction_type = InvalidMsg.transaction_type
    THEN Raise("SlpInvalidOutputMessage", "parseSlpOutputScript")
    ELSE IF msg.transaction_type = UnsupportedMsg.transaction_type
    THEN Raise("SlpUnsupportedSlpTokenType", "parseSlpOutputScript")
    ELSE IF msg.transaction_type \notin {"GENESIS", "MINT", "SEND"}
    THEN IF nft_type = "SLP129_65" THEN MadeJob
         ELSE Raise("AttributeError", "job_mgr.add_job")
    ELSE MadeJob

\* Lines 174-196: the class of the job make_job creates follows nft_type
\* alone; lib make_job (144) always creates a ValidationJob.
JobClass(module, nft_type) ==
    IF module = ELECTRONCASH /\ nft_type = "SLP65" THEN "ValidationJobNFT1Child"
    ELSE "ValidationJob"

\* An entry of wallet.token_types; a name is the list of the pieces it is
\* concatenated from, group_id is absent until the callback sets it.
TokenTypeEntry(class, name) ==
    [class |-> class, name |-> name, decimals |-> 0, group_id |-> KEY_ABSENT]

\* wallet.token_types.get(token_id, None) is truthy.
HasTokenType(types, token_id) == token_id \in DOMAIN types

\* wallet.add_token_type(token_id, entry): the entry replaces what the
\* table held for token_id.
AddTokenType(types, token_id, entry) ==
    [t \in DOMAIN types \cup {token_id} |-> IF t = token_id THEN entry ELSE types[t]]

\* Lines 453-458: the name of the child token with '-parent' appended, or
\* the first characters of the child genesis txid when the child is not
\* registered (KeyError).
ParentName(types, child_id) ==
    IF child_id \in DOMAIN types THEN types[child_id].name \o <<"-parent">>
    ELSE <<child_id, "[:5]", "-parent">>

\* Lines 452-462: the registry after the two unlocked
\* "if not wallet.token_types.get(...): wallet.add_token_type(...)";
\* parent_seen is what line 452 read.
RegisterParentAndChild(types, parent_seen, group_id, child_id) ==
    LET with_parent ==
            IF parent_seen THEN types
            ELSE AddTokenType(types, group_id,
                     TokenTypeEntry("SLP129", ParentName(types, child_id)))
    IN  IF HasTokenType(with_parent, child_id) THEN with_parent
        ELSE AddTokenType(with_parent, child_id,
                 TokenTypeEntry("SLP65", <<child_id, "[:5]">>))

\* ------------------------------------------------------------- state
VARIABLES
    transactions,          \* wallet.transactions: txid -> parse outcome of its first output
    slp_txo,               \* wallet._slp_txo: <<address, txid, n>> -> [token_id, qty]
    history,               \* txids given to wallet.add_tx_to_history
    saved,                 \* wallet.save_transactions was called
    tx,                    \* the candidate transaction
    coins_to_burn,         \* the caller's burn list (a list of mutable dicts)
    amt_to_burn,           \* the caller's burn amount, None or an integer
    require_tx_in_wallet,  \* keyword argument of check_tx_slp
    SLP_PREFLIGHT_CHECK,   \* networks.net.SLP_PREFLIGHT_CHECK
    caller,                \* "_mktx", "_mktx_slp", or "direct" (any other caller)
    pc,                    \* position of the caller
    result,                \* outcome of check_tx_slp
    checked_tx,            \* the transaction check_tx_slp was called with
    preflight_queried,     \* SlpPreflightCheck.query was called
    slp_preflight,         \* the answer SlpPreflightCheck.query gave
    message,               \* the %s of the pre-flight failure message
    signed                 \* the transactions given to wallet.sign_transaction

checkerVars == <<transactions, slp_txo, history, saved, tx, coins_to_burn, amt_to_burn,
                 require_tx_in_wallet, SLP_PREFLIGHT_CHECK, caller, pc, result,
                 checked_tx, preflight_queried, slp_preflight, message, signed>>

VARIABLES
    validator,             \* the Validator_NFT1 under test: implementation and token_id_hex
    call,                  \* the arguments of the last validator call
    ret,                   \* what that call returned
    job,                   \* the ValidationJobNFT1Child (validation_jobmgr.job_current)
    tx_tokinfo,            \* wallet.tx_tokinfo: txid -> record
    nested,                \* the nested parent jobs made by start_NFT_parent_job
    network,               \* the transactions blockchain.transaction.get serves
    token_types,           \* wallet.token_types: token id -> entry
    slpv1_validity,        \* wallet.slpv1_validity: txid -> validity
    wallet_lock,           \* the holder of wallet.lock, or "free"
    wallet_thread          \* position of another thread that uses the wallet

walletVars == <<token_types, slpv1_validity, wallet_lock, wallet_thread>>

VARIABLES
    graph_db,              \* graph_db: token id -> the graph stored for it
    graph_db_lock,         \* the thread inside "with graph_db_lock", or "free"
    threads,               \* the threads that call get_graph: position and locals
    graphs,                \* every TokenGraph that was created
    kills,                 \* token id -> how many graphs of it kill_graph removed
    returned,              \* what the get_graph calls returned
    queued                 \* the jobs given to job_mgr.add_job

graphVars == <<graph_db, graph_db_lock, threads, graphs, kills, returned, queued>>

validatorVars == <<validator, call, ret, job, tx_tokinfo, nested, network, walletVars,
                   graphVars>>

vars == <<checkerVars, validatorVars>>

\* ------------------------------------------------------------- inputs
TokenIds == {"tA", "tB"}
Addr == "addr"
\* The txid of the candidate; the source transaction of input i has txid i.
NewTxid == MaxInputs + 2
\* Marks a case without a source transaction / without a record.
NoTx == [transaction_type |-> "not in wallet.transactions"]
NoRec == [token_id |-> "not in wallet._slp_txo", qty |-> 0]
Rec(tid, q) == [token_id |-> tid, qty |-> q]
Quantities == 0 .. MaxQty
Records == {Rec(t, q) : t \in TokenIds, q \in Quantities \cup {MINT_BATON}}

ScriptOut == [type |-> TYPE_SCRIPT, kind |-> KIND_OTHER]
AddrOut(k) == [type |-> TYPE_ADDRESS, kind |-> k]
\* Outputs after the first: addresses of either kind, or something else.
LaterOutputs == {AddrOut(ADDR_P2PKH), AddrOut(ADDR_P2SH), ScriptOut}

\* A source transaction under which the record r at index n is what a
\* wallet that processed the source would hold.
SourceOf(r, n) ==
    IF r = NoRec THEN InvalidMsg
    ELSE IF r.qty = MINT_BATON THEN MintMsg(r.token_id, Some(n), 1)
    ELSE SendMsg(r.token_id, <<0, r.qty>>)
CaseOf(r) ==
    [n |-> IF r # NoRec /\ r.qty = MINT_BATON THEN 2 ELSE 1,
     src |-> SourceOf(r, IF r # NoRec /\ r.qty = MINT_BATON THEN 2 ELSE 1),
     rec |-> r]
RecordCases == {CaseOf(r) : r \in Records \cup {NoRec}}
\* The cases of a SEND of token tA: every record of tA, and the records of
\* another token that differ in kind (quantity 0, a quantity, a baton).
SendCases ==
    {CaseOf(r) : r \in {NoRec} \cup {x \in Records : x.token_id = "tA" \/ x.qty <= 1}}

\* Source transactions of every shape step 1 distinguishes, with the spent
\* index, each with and without a record.
Step1Sources ==
    {<<1, NoTx>>, <<1, InvalidMsg>>, <<1, UnsupportedMsg>>,
     <<1, SendMsg("tA", <<0, 1>>)>>, <<1, SendMsg("tA", <<0, 0>>)>>,
     <<2, SendMsg("tA", <<0, 1>>)>>,
     <<1, GenesisMsg(None, 1)>>, <<1, GenesisMsg(None, 0)>>,
     <<2, GenesisMsg(Some(2), 0)>>, <<2, GenesisMsg(None, 1)>>,
     <<1, MintMsg("tA", Some(2), 0)>>, <<1, MintMsg("tA", None, 1)>>,
     <<3, MintMsg("tA", Some(2), 1)>>}
Step1Cases ==
    {[n |-> s[1], src |-> s[2], rec |-> r] :
        s \in Step1Sources, r \in {NoRec, Rec("tA", 1)}}

\* The sequences of 1..MaxInputs cases drawn from a set.
CaseSeqs(S) == UNION {[1 .. k -> S] : k \in 1 .. MaxInputs}

\* A coin of the burn list: c = i > 0 is the outpoint spent by input i, with
\* the value of its record; c = 0 is an outpoint the candidate does not spend.
CoinOf(cases, c) ==
    IF c \in DOMAIN cases
    THEN [prevout_hash |-> c, prevout_n |-> cases[c].n,
          token_value |-> IF cases[c].rec = NoRec THEN 1 ELSE cases[c].rec.qty,
          is_in_txn |-> KEY_ABSENT]
    ELSE [prevout_hash |-> MaxInputs + 1, prevout_n |-> 1,
          token_value |-> 1, is_in_txn |-> KEY_ABSENT]
\* Burn lists of at most two distinct coins.
CoinChoices(cases) ==
    LET C == (DOMAIN cases) \cup {0} IN
    {<<>>} \cup {<<c>> : c \in C}
           \cup {s \in C \X C : s[1] # s[2]}
CoinsOf(cases, sel) == [k \in DOMAIN sel |-> CoinOf(cases, sel[k])]

\* What the oracle may answer: ok, or not ok with or without a stated reason.
PreflightAnswers ==
    {PreflightAnswer(TRUE, KEY_ABSENT), PreflightAnswer(FALSE, KEY_ABSENT),
     PreflightAnswer(FALSE, "invalid inputs")}

\* No validation job exists while a candidate transaction is checked.
NoJob == [pc |-> "none"]
NoCall == [op |-> "none"]
\* No graph exists and no thread asks for one.
NoGraphs ==
    /\ graph_db = <<>>
    /\ graph_db_lock = "free"
    /\ threads = <<>>
    /\ graphs = {}
    /\ kills = <<>>
    /\ returned = {}
    /\ queued = {}

\* The wallet tables the validator's callbacks write are empty, its lock is
\* free and no other thread is about to use it.
NoWalletTables ==
    /\ token_types = <<>>
    /\ slpv1_validity = <<>>
    /\ wallet_lock = "free"
    /\ wallet_thread = "done"

NoValidator ==
    /\ validator = [module |-> "none", token_id_hex |-> "none"]
    /\ call = NoCall
    /\ ret = NotCalled
    /\ job = NoJob
    /\ tx_tokinfo = <<>>
    /\ nested = {}
    /\ network = <<>>
    /\ NoWalletTables
    /\ NoGraphs

\* The state before a call: the wallet holds the source and the record of
\* every case, the candidate spends them in order.
Setup(cases, msg, outs, sel, amt, req, pre, who) ==
    /\ tx = [txid |-> NewTxid,
             inputs |-> [i \in DOMAIN cases |->
                           [address |-> Addr, prevout_hash |-> i,
                            prevout_n |-> cases[i].n]],
             outputs |-> outs,
             slp_msg |-> msg]
    /\ transactions =
         [h \in {i \in DOMAIN cases : cases[i].src # NoTx} |-> cases[h].src]
    /\ slp_txo =
         [k \in {<<Addr, i, cases[i].n>> : i \in {j \in DOMAIN cases : cases[j].rec # NoRec}}
            |-> cases[k[2]].rec]
    /\ history = {}
    /\ saved = FALSE
    /\ coins_to_burn = CoinsOf(cases, sel)
    /\ amt_to_burn = amt
    /\ require_tx_in_wallet = req
    /\ SLP_PREFLIGHT_CHECK = pre
    /\ caller = who
    /\ pc = "built"
    /\ result = NotCalled
    /\ checked_tx = <<>>
    /\ preflight_queried = FALSE
    /\ slp_preflight = NoAnswer
    /\ message = NoMessage
    /\ signed = {}

\* ------------------------------------------------------------- Init
\* Declared token outputs of a SEND: index 0 is always 0, then one or two
\* quantities.
TokenOutputs ==
    {<<0, a>> : a \in Quantities} \cup {<<0, a, b>> : a \in Quantities, b \in Quantities}
StandardOutputs == <<ScriptOut, AddrOut(ADDR_P2PKH), AddrOut(ADDR_P2SH)>>
\* One to three outputs, the first the metadata carrier.
OutputLists ==
    {<<ScriptOut>>} \cup {<<ScriptOut, a>> : a \in LaterOutputs}
                    \cup {<<ScriptOut, a, b>> : a \in LaterOutputs, b \in LaterOutputs}
BatonChoices == {None, Some(2)}
MintGenesisMsgs ==
    {GenesisMsg(b, q) : b \in BatonChoices, q \in {0, 1}}
        \cup {MintMsg("tA", b, q) : b \in BatonChoices, q \in {0, 1}}
Amounts == {None} \cup {Some(a) : a \in Quantities}

\* Step 1: sources of every shape, with and without a record.
InitStep1 ==
    \E cases \in CaseSeqs(Step1Cases),
       c \in {<<InvalidMsg, <<>>, None>>,
              <<SendMsg("tA", <<0, 1>>), <<>>, None>>,
              <<SendMsg("tA", <<0, 1>>), <<1>>, None>>,
              <<SendMsg("tA", <<0, 1>>), <<1>>, Some(1)>>},
       req \in BOOLEAN :
        Setup(cases, c[1], StandardOutputs, c[2], c[3], req, FALSE, "direct")

\* SEND: records of every token id and quantity against every declared
\* output list, with and without a burn of the first input, and with a
\* burn list that also names an outpoint the candidate does not spend.
InitSend ==
    \E cases \in CaseSeqs(SendCases), outs \in TokenOutputs,
       burn \in {<<<<>>, None>>, <<<<>>, Some(1)>>, <<<<1>>, None>>, <<<<1, 0>>, Some(1)>>}
                   \cup {<<<<1>>, Some(a)>> : a \in Quantities} :
        Setup(cases, SendMsg("tA", outs), StandardOutputs, burn[1], burn[2], TRUE, FALSE, "direct")

\* SEND: every output list against declared outputs of each length.
InitSendOutputs ==
    \E r \in {Rec("tA", 1), Rec("tA", 2)},
       outs \in {<<0, 1>>, <<0, 1, 0>>, <<0, 0, 1>>, <<0, 1, 1>>, <<0, 2>>},
       olist \in OutputLists, who \in {"_mktx", "_mktx_slp"} :
        Setup(<<CaseOf(r)>>, SendMsg("tA", outs), olist, <<>>, None, TRUE, FALSE, who)

\* No token metadata: records of every kind against every burn list.
InitNonSlp ==
    \E cases \in CaseSeqs(RecordCases), amt \in Amounts :
        \E sel \in CoinChoices(cases) :
            Setup(cases, InvalidMsg, StandardOutputs, sel, amt, TRUE, FALSE, "direct")

\* GENESIS and MINT: every output list.
InitMintGenesisOutputs ==
    \E msg \in MintGenesisMsgs, olist \in OutputLists,
       r \in {NoRec, Rec("tA", MINT_BATON)}, who \in {"_mktx", "direct"} :
        Setup(<<CaseOf(r)>>, msg, olist, <<>>, None, TRUE, FALSE, who)

\* GENESIS and MINT: records of every kind, with and without a burn list.
InitMintGenesisInputs ==
    \E cases \in CaseSeqs(RecordCases),
       msg \in {GenesisMsg(None, 1), MintMsg("tA", Some(2), 1)},
       burn \in {<<<<>>, None>>, <<<<1>>, Some(1)>>, <<<<1, 0>>, Some(1)>>} :
        Setup(cases, msg, StandardOutputs, burn[1], burn[2], TRUE, FALSE, "direct")

\* The pre-flight oracle enabled, for candidates of each kind.
InitPreflight ==
    \E r \in {NoRec, Rec("tA", 1), Rec("tB", 1)},
       msg \in {InvalidMsg, UnsupportedMsg, SendMsg("tA", <<0, 1>>),
                GenesisMsg(None, 1), MintMsg("tA", None, 1)},
       who \in {"_mktx", "_mktx_slp", "direct"} :
        Setup(<<CaseOf(r)>>, msg, StandardOutputs, <<>>, None, TRUE, TRUE, who)

Init ==
    /\ \/ InitStep1
       \/ InitSend
       \/ InitSendOutputs
       \/ InitNonSlp
       \/ InitMintGenesisOutputs
       \/ InitMintGenesisInputs
       \/ InitPreflight
    /\ NoValidator

\* ------------------------------------------------------------- actions
\* SlpTransactionChecker.check_tx_slp(wallet, tx, coins_to_burn=...,
\* amt_to_burn=..., require_tx_in_wallet=...): the whole call.  In _mktx and
\* _mktx_slp it is the operand of an assert; it returns True or raises.
check_tx_slp ==
    /\ pc = "built"
    /\ \E answer \in IF SLP_PREFLIGHT_CHECK THEN PreflightAnswers ELSE {NoAnswer} :
        LET r == CheckTxSlp(transactions, slp_txo, tx, coins_to_burn, amt_to_burn,
                            require_tx_in_wallet, SLP_PREFLIGHT_CHECK, answer)
        IN  /\ result' = r.result
            /\ coins_to_burn' = r.coins
            /\ preflight_queried' = r.queried
            /\ slp_preflight' = IF r.queried THEN answer ELSE NoAnswer
            /\ message' = r.message
    /\ checked_tx' = tx
    /\ pc' = IF result' = ReturnTrue THEN "checked" ELSE "raised"
    /\ UNCHANGED <<transactions, slp_txo, history, saved, tx, amt_to_burn,
                   require_tx_in_wallet, SLP_PREFLIGHT_CHECK, caller, signed,
                   validatorVars>>

\* CheckPassed when the outcome of the check is not looked at.
CheckOutcomeIgnored == pc \in {"checked", "raised"}

\* The guard of the statements after the assert in _mktx / _mktx_slp.
CheckPassed == pc = "checked" /\ result = ReturnTrue

\* commands.py 618-620 and 686-688: `if not unsigned:` sign the transaction.
sign_transaction ==
    /\ caller \in {"_mktx", "_mktx_slp"}
    /\ CheckPassed
    /\ signed' = signed \cup {tx}
    /\ pc' = "signed"
    /\ UNCHANGED <<transactions, slp_txo, history, saved, tx, coins_to_burn,
                   amt_to_burn, require_tx_in_wallet, SLP_PREFLIGHT_CHECK, caller,
                   result, checked_tx, preflight_queried, slp_preflight, message,
                   validatorVars>>

\* commands.py 621-624: `if addtransaction:` (in _mktx only) add the signed
\* transaction to the wallet, to its history, and save.
add_transaction ==
    /\ caller = "_mktx"
    /\ pc = "signed"
    /\ transactions' =
         [h \in DOMAIN transactions \cup {tx.txid} |->
            IF h = tx.txid THEN tx.slp_msg ELSE transactions[h]]
    /\ history' = history \cup {tx.txid}
    /\ saved' = TRUE
    /\ pc' = "added"
    /\ UNCHANGED <<slp_txo, tx, coins_to_burn, amt_to_burn, require_tx_in_wallet,
                   SLP_PREFLIGHT_CHECK, caller, result, checked_tx,
                   preflight_queried, slp_preflight, message, signed,
                   validatorVars>>

\* commands.py 625 and 689: `return tx`, unsigned, signed, or signed and added.
return_tx ==
    /\ caller \in {"_mktx", "_mktx_slp"}
    /\ pc \in {"checked", "signed", "added"}
    /\ pc' = "returned"
    /\ UNCHANGED <<transactions, slp_txo, history, saved, tx, coins_to_burn,
                   amt_to_burn, require_tx_in_wallet, SLP_PREFLIGHT_CHECK, caller,
                   result, checked_tx, preflight_queried, slp_preflight, message,
                   signed, validatorVars>>

Next ==
    \/ check_tx_slp
    \/ sign_transaction
    \/ add_transaction
    \/ return_tx

Spec == Init /\ [][Next]_vars

\* ------------------------------------------------------------- validator runs
\* No candidate transaction is being checked while the validator runs.
NoCandidate == Setup(<<>>, InvalidMsg, StandardOutputs, <<>>, None, TRUE, FALSE, "direct")

\* The call of validate has not returned yet.
InCall == [kind |-> "in_call", ok |-> FALSE, validity |-> 0]

\* Transactions given to get_info: any parse outcome of the first output,
\* zero to three outputs, zero to MaxInputs inputs.
TokenTypes == {65, 1}
OutputCounts == 0..3
GetInfoMsgs ==
    {InvalidMsg, UnsupportedMsg, NftMint(65, "tA", 1), NftCommit(65)}
    \cup {NftSend(tt, tid, outs) : tt \in TokenTypes, tid \in TokenIds, outs \in TokenOutputs}
    \cup {NftGenesis(tt, b, d, q) : tt \in TokenTypes, b \in {None, Some(2)},
                                   d \in {0, 1}, q \in Quantities}
GetInfoTxs ==
    [txid : TokenIds, n_inputs : 0..MaxInputs, n_outputs : OutputCounts,
     slp_msg : GetInfoMsgs]

\* The validator of one token id, of either implementation; only
\* diff_testing_mode (fuzzing) works with a validator without token id.
InitGetInfo ==
    /\ \E module \in {ELECTRONCASH, LIB}, tid \in TokenIds \cup {NO_TOKEN_ID},
          t \in GetInfoTxs, diff \in BOOLEAN :
          /\ (tid = NO_TOKEN_ID \/ diff) => (module = ELECTRONCASH /\ diff)
          /\ validator = [module |-> module, token_id_hex |-> tid]
          /\ call = [op |-> "get_info", tx |-> t, diff_testing_mode |-> diff]
    /\ ret = NotCalled
    /\ job = NoJob
    /\ tx_tokinfo = <<>>
    /\ nested = {}
    /\ NoWalletTables
    /\ network = <<>>

\* Contributions of an output as get_info lists them and as the fungible
\* validator marks a baton.
Contributions == {None, Some(MINT_BATON)} \cup {Some(q) : q \in Quantities}
MyInfos == {GENESIS} \cup Quantities

InitCheckNeeded ==
    /\ \E module \in {ELECTRONCASH, LIB}, myinfo \in MyInfos, out_n \in Contributions :
          /\ validator = [module |-> module, token_id_hex |-> "tA"]
          /\ call = [op |-> "check_needed", myinfo |-> myinfo, out_n |-> out_n]
    /\ ret = NotCalled
    /\ job = NoJob
    /\ tx_tokinfo = <<>>
    /\ nested = {}
    /\ NoWalletTables
    /\ network = <<>>

\* inputs_info of a node: up to two relevant inputs, each with the
\* validity of its transaction and the quantity it contributes.
InputInfo == [validity : {0, 1, 3}, qty : 1..MaxQty]
InputsInfos == {<<>>} \cup {<<a>> : a \in InputInfo} \cup {<<a, b>> : a \in InputInfo, b \in InputInfo}

\* The node of the root transaction, and the node of the child genesis.
Nodes == [myinfo : MyInfos, inputs_info : InputsInfos]
GenesisNode == [myinfo |-> GENESIS, inputs_info |-> <<>>]

\* The parent the child genesis points to, as the network serves it: of
\* the group type 129 or of type 1, a GENESIS, MINT or SEND, or not parseable.
ParentMsgs ==
    {InvalidMsg, UnsupportedMsg,
     NftSend(129, "tG", <<0, 1>>), NftSend(129, "tG", <<0, 0>>),
     NftSend(129, "tG", <<0, 0, 1>>),
     NftSend(1, "tG", <<0, 1>>), NftMint(129, "tG", 1), NftMint(129, "tG", 0),
     NftGenesis(129, None, 0, 1), NftGenesis(129, None, 0, 0),
     NftGenesis(1, None, 0, 1)}
Parses(m) ==
    m.transaction_type \notin {InvalidMsg.transaction_type, UnsupportedMsg.transaction_type}
ParentTx(m) == [txid |-> "tP", slp_msg |-> m]
GenesisTx(n) ==
    [txid |-> "tA", inputs |-> <<[prevout_hash |-> "tP", prevout_n |-> n]>>,
     slp_msg |-> NftGenesis(65, None, 0, 1)]
Networks == {[genesis |-> GenesisTx(n), parent |-> ParentTx(m)] : n \in 0..2, m \in ParentMsgs}

\* The wallet has registered the child token the job validates and nothing
\* else; no other thread is about to use it.
ChildRegistered ==
    /\ token_types = AddTokenType(<<>>, "tA", TokenTypeEntry("SLP65", <<"child">>))
    /\ slpv1_validity = <<>>
    /\ wallet_lock = "free"
    /\ wallet_thread = "done"

\* A new job of the electroncash validator; the wallet may already hold a
\* tx_tokinfo record of a parent it has parsed before.
InitJob ==
    /\ validator = [module |-> ELECTRONCASH, token_id_hex |-> "tA"]
    /\ call = NoCall
    /\ ret = NotCalled
    /\ \E is_child \in BOOLEAN, root \in Nodes : job = NewJob(is_child, root)
    /\ network \in Networks
    /\ \/ tx_tokinfo = <<>>
       \/ /\ Parses(network.parent.slp_msg)
          /\ tx_tokinfo = PutTokinfo(<<>>, "tP", ParentTokinfo(network.parent))
    /\ nested = {}
    /\ ChildRegistered

\* The lib validator keeps the parent on itself; its fields are as its
\* download and job callbacks (331-404) leave them.
InitLibJob ==
    /\ validator = [module |-> LIB, token_id_hex |-> "tA"]
    /\ call = NoCall
    /\ ret = NotCalled
    /\ network \in {n \in Networks : n.genesis.inputs[1].prevout_n = 1 /\ Parses(n.parent.slp_msg)}
    /\ \E root \in Nodes :
       \/ job = NewJob(TRUE, root)
       \/ \E v \in 0..3 :
            job = [NewJob(TRUE, root) EXCEPT !.genesis_tx = Some(network.genesis),
                                       !.nft_parent_tx = Some(network.parent),
                                       !.nft_parent_validity = v]
    /\ tx_tokinfo = <<>>
    /\ nested = {}
    /\ ChildRegistered

\* A job made by make_job has stopped: its nodes, each with the validity
\* the job left on it, and the validity cache of the wallet.
JobNodes == UNION {[D -> 0..4] : D \in (SUBSET {"tR", "tA"}) \ {{}}}
ValidityCaches == UNION {[D -> 1..3] : D \in SUBSET {"tA", "tX"}}
InitDoneCallback ==
    /\ validator \in {[module |-> m, token_id_hex |-> "tA"] : m \in {ELECTRONCASH, LIB}}
    /\ \E nodes \in JobNodes : call = [op |-> "done_callback", nodes |-> nodes]
    /\ ret = NotCalled
    /\ job = NoJob
    /\ tx_tokinfo = <<>>
    /\ nested = {}
    /\ network = <<>>
    /\ token_types = <<>>
    /\ slpv1_validity \in ValidityCaches
    /\ wallet_lock = "free"
    /\ wallet_thread = "done"

\* A child job at its genesis node with the wallet in each state the
\* callbacks can meet: the parent's record absent or present with the
\* validity an earlier job stored, the child token and the group token
\* registered or not, the wallet gone or not, and another thread about to
\* register the group token or not.
GroupIdOf(parent) ==
    IF Parses(parent.slp_msg) THEN ParentTokinfo(parent).token_id ELSE "tG"
RegistryTables(group_id) ==
    {<<>>,
     AddTokenType(<<>>, "tA", TokenTypeEntry("SLP65", <<"child">>)),
     AddTokenType(<<>>, group_id, TokenTypeEntry("SLP129", <<"group">>)),
     AddTokenType(AddTokenType(<<>>, "tA", TokenTypeEntry("SLP65", <<"child">>)),
                  group_id, TokenTypeEntry("SLP129", <<"group">>))}
InitRegistry ==
    /\ \E m \in {ELECTRONCASH, LIB}, r \in {"wallet", "None"} :
         /\ validator = [module |-> m, token_id_hex |-> "tA"]
         /\ (r = "None" => m = ELECTRONCASH)
         /\ job = [NewJob(TRUE, GenesisNode) EXCEPT !.ref = r]
    /\ call = NoCall
    /\ ret = NotCalled
    /\ network \in Networks
    /\ \/ tx_tokinfo = <<>>
       \/ /\ Parses(network.parent.slp_msg)
          /\ \E v \in {0, 1} :
               tx_tokinfo = PutTokinfo(<<>>, "tP",
                                [ParentTokinfo(network.parent) EXCEPT !.validity = v])
    /\ nested = {}
    /\ token_types \in RegistryTables(GroupIdOf(network.parent))
    /\ slpv1_validity = <<>>
    /\ wallet_lock = "free"
    /\ wallet_thread \in {"idle", "done"}

InitNFT1 ==
    /\ NoCandidate
    /\ NoGraphs
    /\ \/ InitGetInfo
       \/ InitCheckNeeded
       \/ InitJob
       \/ InitLibJob
       \/ InitDoneCallback
       \/ InitRegistry

\* TokenGraph calls get_info on a transaction of the graph.
call_get_info ==
    /\ call.op = "get_info"
    /\ ret = NotCalled
    /\ ret' = IF validator.module = ELECTRONCASH
              THEN get_info(validator.token_id_hex, call.tx, call.diff_testing_mode)
              ELSE lib_get_info(validator.token_id_hex, call.tx)
    /\ UNCHANGED <<checkerVars, graphVars, walletVars, validator, call, job, tx_tokinfo, nested, network>>

\* TokenGraph calls check_needed for an input of a node.
call_check_needed ==
    /\ call.op = "check_needed"
    /\ ret = NotCalled
    /\ ret' = check_needed(call.myinfo, call.out_n)
    /\ UNCHANGED <<checkerVars, graphVars, walletVars, validator, call, job, tx_tokinfo, nested, network>>

\* The job calls validate(myinfo, inputs_info) for one of its nodes, the
\* root transaction's or the child genesis'.  In
\* electroncash the first call that needs the parent goes on to
\* validate_NFT_parent in the same thread and returns None after it; in lib
\* validate_NFT_parent pauses the job, sends the request for the genesis
\* transaction and returns.
call_validate ==
    /\ job.pc = "idle"
    /\ \E node \in {"root", "genesis"} :
        LET myinfo == IF node = "root" THEN job.root.myinfo ELSE GenesisNode.myinfo
            inputs_info == IF node = "root" THEN job.root.inputs_info
                           ELSE GenesisNode.inputs_info
        IN
        /\ call' = [op |-> "validate", node |-> node,
                    myinfo |-> myinfo, inputs_info |-> inputs_info,
                    nft_parent_validity |-> job.nft_parent_validity,
                    nft_parent_tx |-> job.nft_parent_tx]
        /\ IF validator.module = ELECTRONCASH
           THEN IF StartsParentValidation(job.is_child, job, myinfo)
                THEN /\ ret' = InCall
                     /\ job' = [job EXCEPT !.pc = "download_nft_genesis"]
                ELSE /\ ret' = validate(job.is_child, job, myinfo, inputs_info)
                     /\ job' = job
           ELSE /\ ret' = lib_validate(job, myinfo, inputs_info)
                /\ job' = IF job.nft_parent_tx = None
                          THEN [job EXCEPT !.pc = "paused"] ELSE job
    /\ UNCHANGED <<checkerVars, graphVars, walletVars, validator, tx_tokinfo, nested, network>>

\* WaitGroup.wait() at 377 and 432 after a response that never clears the
\* group: the validator's thread stays in it, or the wait ends.
WaitOutcomes == {"blocks", "returns"}

\* wallet.tx_tokinfo after dl_cb (355-366, lib 312-323) has stored the
\* record of the child genesis, unless the wallet has one.
WithGenesisTokinfo(tokinfo, genesis) ==
    IF HasTokinfo(tokinfo, genesis.txid) THEN tokinfo
    ELSE PutTokinfo(tokinfo, genesis.txid,
                    [type |-> genesis.slp_msg.token_type,
                     transaction_type |-> genesis.slp_msg.transaction_type,
                     token_id |-> genesis.txid,
                     validity |-> 0])

\* download_nft_genesis (339-379): line 371 reads wallet.transactions of
\* what the weak reference gave; the genesis transaction of the child token
\* comes from the wallet or from the network; dl_cb raises on an error
\* response, in the network's thread and before wg.clear(), and after the
\* wait start_dl_nft_parent(nft_child_job, True) goes on to line 425 with
\* genesis_tx still None.
download_nft_genesis ==
    /\ job.pc = "download_nft_genesis"
    /\ IF job.ref = "None"
       THEN /\ job' = [job EXCEPT !.pc = "raised"]
            /\ ret' = Raise("AttributeError", "wallet.transactions")
            /\ UNCHANGED tx_tokinfo
       ELSE \E resp \in {"result", "error"}, wait \in WaitOutcomes :
              IF resp = "error"
              THEN /\ UNCHANGED tx_tokinfo
                   /\ IF wait = "blocks"
                      THEN /\ job' = [job EXCEPT !.pc = "blocked",
                                                 !.error_response = Some("genesis")]
                           /\ UNCHANGED ret
                      ELSE /\ job' = [job EXCEPT !.pc = "raised",
                                                 !.error_response = Some("genesis")]
                           /\ ret' = Raise("AttributeError", "genesis_tx.inputs")
              ELSE /\ wallet_lock = "free"
                   /\ job' = [job EXCEPT !.genesis_tx = Some(network.genesis),
                                         !.pc = "download_nft_parent_tx"]
                   /\ tx_tokinfo' = WithGenesisTokinfo(tx_tokinfo, network.genesis)
                   /\ UNCHANGED ret
    /\ UNCHANGED <<checkerVars, graphVars, walletVars, validator, call, nested, network>>

\* download_nft_parent_tx (381-434): the transaction the child genesis'
\* first input spends; it is classified only when the wallet has no
\* tx_tokinfo record of it yet.  After an error response and a wait that
\* ends, start_nft_parent_validation(nft_child_job, True) is called with
\* nft_parent_tx still None.
download_nft_parent_tx ==
    /\ job.pc = "download_nft_parent_tx"
    /\ \E resp \in {"result", "error"}, wait \in WaitOutcomes :
        IF resp = "error"
        THEN /\ job' = [job EXCEPT !.pc = IF wait = "blocks" THEN "blocked"
                                          ELSE "start_NFT_parent_job",
                                   !.error_response = Some("parent")]
             /\ UNCHANGED tx_tokinfo
        ELSE LET parent == network.parent
                 nft_parent_idx == job.genesis_tx[1].inputs[1].prevout_n
                 known == HasTokinfo(tx_tokinfo, parent.txid)
                 bad == IsBadParent(parent, nft_parent_idx)
             IN  /\ wallet_lock = "free"
                 /\ job' = [job EXCEPT
                              !.nft_parent_validity = IF ~known /\ bad THEN 4 ELSE @,
                              !.nft_parent_tx = Some(parent),
                              !.pc = "start_NFT_parent_job"]
                 /\ tx_tokinfo' = IF known \/ bad THEN tx_tokinfo
                                  ELSE PutTokinfo(tx_tokinfo, parent.txid, ParentTokinfo(parent))
    /\ UNCHANGED <<checkerVars, graphVars, walletVars, validator, call, ret, nested, network>>

\* start_NFT_parent_job (436-486): with a parent already invalid the job is
\* resumed with that validity; otherwise graph_context.make_job makes the
\* nested job of the parent and runs it, unless the job manager was killed
\* (graph_context is None, a warning).  With nft_parent_tx None make_job
\* fails in setup_job at tx.outputs().
start_NFT_parent_job ==
    /\ job.pc = "start_NFT_parent_job"
    /\ IF job.nft_parent_validity > 1
       THEN /\ job' = [job EXCEPT !.pc = "idle"]
            /\ ret' = Pending
            /\ UNCHANGED nested
       ELSE \E graph_context \in {"alive", "None"} :
              IF graph_context = "None"
              THEN /\ job' = [job EXCEPT !.pc = "idle"]
                   /\ ret' = Pending
                   /\ UNCHANGED nested
              ELSE IF job.nft_parent_tx = None
              THEN /\ job' = [job EXCEPT !.pc = "raised"]
                   /\ ret' = Raise("AttributeError", "tx.outputs")
                   /\ UNCHANGED nested
              ELSE /\ job' = [job EXCEPT !.pc = "nested_job"]
                   /\ nested' = nested \cup {job.nft_parent_tx[1].txid}
                   /\ UNCHANGED ret
    /\ UNCHANGED <<checkerVars, graphVars, walletVars, validator, call, tx_tokinfo, network>>

\* The locals of the nested job's callback after its first reads (449-452,
\* lib 364-367): the parent node's validity, the group id of the parent's
\* record and whether the registry has the group token.
CallbackLocals(val, tokinfo, types, parent_txid) ==
    [val |-> val, group_id |-> tokinfo[parent_txid].token_id,
     parent_seen |-> HasTokenType(types, tokinfo[parent_txid].token_id)]

\* callback (448-452) of the nested job, called when job.run() at 480 is
\* over: it reads the validity of the parent's node and, without the
\* wallet lock, the parent's record and the registry.
nested_job_callback ==
    /\ job.pc = "nested_job"
    /\ \E val \in 0..3 :
        job' = [job EXCEPT !.pc = "callback_add_token_type",
                           !.callback = Some(CallbackLocals(val, tx_tokinfo, token_types,
                                                            job.nft_parent_tx[1].txid))]
    /\ UNCHANGED <<checkerVars, graphVars, walletVars, validator, call, ret, tx_tokinfo, nested, network>>

\* callback, lines 452-462: the group token and the child token are
\* registered if the registry had none, still without the wallet lock.
callback_add_token_type ==
    /\ job.pc = "callback_add_token_type"
    /\ token_types' = RegisterParentAndChild(token_types, job.callback[1].parent_seen,
                                             job.callback[1].group_id,
                                             job.genesis_tx[1].txid)
    /\ job' = [job EXCEPT !.pc = "callback_set_validity"]
    /\ UNCHANGED <<checkerVars, graphVars, validator, call, ret, tx_tokinfo, nested, network,
                   slpv1_validity, wallet_lock, wallet_thread>>

\* callback, lines 463-472: under the wallet lock the child's entry gets
\* its group_id and the parent's record the validity; restart_nft_job
\* (488-489) stores the validity on the child job and validate returns None.
callback_set_validity ==
    /\ job.pc = "callback_set_validity"
    /\ wallet_lock = "free"
    /\ token_types' = [token_types EXCEPT
                         ![job.genesis_tx[1].txid].group_id = job.callback[1].group_id]
    /\ tx_tokinfo' = [tx_tokinfo EXCEPT
                        ![job.nft_parent_tx[1].txid].validity = job.callback[1].val]
    /\ job' = [job EXCEPT !.nft_parent_validity = job.callback[1].val,
                          !.pc = "idle", !.callback = None]
    /\ ret' = Pending
    /\ UNCHANGED <<checkerVars, graphVars, validator, call, nested, network,
                   slpv1_validity, wallet_lock, wallet_thread>>

\* A callback of the lib validator raised in the thread that ran it: the
\* job that validate_NFT_parent paused (392) is not unpaused.
NeverUnpaused(j, exception) ==
    [j EXCEPT !.pc = "never_unpaused", !.raised = Some(exception)]

\* lib download_nft_genesis (304-329): validate_NFT_parent has paused the
\* job and sent the request; dl_cb runs in the network's thread.
lib_download_nft_genesis ==
    /\ job.pc = "paused"
    /\ \E resp \in {"result", "error"} :
        IF resp = "error"
        THEN /\ job' = [NeverUnpaused(job, "Exception") EXCEPT
                          !.error_response = Some("genesis")]
             /\ UNCHANGED tx_tokinfo
        ELSE /\ wallet_lock = "free"
             /\ job' = [job EXCEPT !.genesis_tx = Some(network.genesis),
                                   !.pc = "paused_download_nft_parent_tx"]
             /\ tx_tokinfo' = WithGenesisTokinfo(tx_tokinfo, network.genesis)
    /\ UNCHANGED <<checkerVars, graphVars, walletVars, validator, call, ret, nested, network>>

\* lib download_nft_parent_tx (331-358): dl_cb parses the parent without a
\* handler when the wallet has no record of it.
lib_download_nft_parent_tx ==
    /\ job.pc = "paused_download_nft_parent_tx"
    /\ \E resp \in {"result", "error"} :
        LET parent == network.parent
            known == HasTokinfo(tx_tokinfo, parent.txid)
        IN  IF resp = "error"
            THEN /\ job' = [NeverUnpaused(job, "Exception") EXCEPT
                              !.error_response = Some("parent")]
                 /\ UNCHANGED tx_tokinfo
            ELSE /\ wallet_lock = "free"
                 /\ IF ~known /\ ~Parses(parent.slp_msg)
                    THEN /\ job' = NeverUnpaused(job, "SlpParsingError")
                         /\ UNCHANGED tx_tokinfo
                    ELSE /\ job' = [job EXCEPT !.nft_parent_tx = Some(parent),
                                               !.pc = "paused_start_NFT_parent_job"]
                         /\ tx_tokinfo' = IF known THEN tx_tokinfo
                                          ELSE PutTokinfo(tx_tokinfo, parent.txid,
                                                          ParentTokinfo(parent))
    /\ UNCHANGED <<checkerVars, graphVars, walletVars, validator, call, ret, nested, network>>

\* lib start_NFT_parent_job (360-388): make_job of the same module makes
\* the nested job and gives it to the job manager; the callback is added
\* to the job that make_job returned, and nothing is done when it is None.
lib_start_NFT_parent_job ==
    /\ job.pc = "paused_start_NFT_parent_job"
    /\ \E in_graph_db \in BOOLEAN :
        LET made == lib_make_job(FALSE, job.nft_parent_tx[1].slp_msg, in_graph_db)
        IN  IF made.kind = MadeJob.kind
            THEN /\ job' = [job EXCEPT !.pc = "paused_nested_job"]
                 /\ nested' = nested \cup {job.nft_parent_tx[1].txid}
            ELSE IF made.kind = ReturnedNone.kind
            THEN /\ job' = [job EXCEPT !.pc = "never_unpaused"]
                 /\ UNCHANGED nested
            ELSE /\ job' = NeverUnpaused(job, made.kind)
                 /\ UNCHANGED nested
    /\ UNCHANGED <<checkerVars, graphVars, walletVars, validator, call, ret, tx_tokinfo, network>>

\* lib callback (363-367) of the nested job.
lib_nested_job_callback ==
    /\ job.pc = "paused_nested_job"
    /\ \E val \in 0..3 :
        job' = [job EXCEPT !.pc = "paused_callback_add_token_type",
                           !.callback = Some(CallbackLocals(val, tx_tokinfo, token_types,
                                                            job.nft_parent_tx[1].txid))]
    /\ UNCHANGED <<checkerVars, graphVars, walletVars, validator, call, ret, tx_tokinfo, nested, network>>

\* lib callback, lines 367-371: the group token is registered under the
\* child token's name, which is read without a handler for KeyError.
lib_callback_add_token_type ==
    /\ job.pc = "paused_callback_add_token_type"
    /\ LET child_id == job.genesis_tx[1].txid
           locals == job.callback[1]
       IN  IF locals.parent_seen
           THEN /\ job' = [job EXCEPT !.pc = "paused_callback_set_validity"]
                /\ UNCHANGED token_types
           ELSE IF ~HasTokenType(token_types, child_id)
           THEN /\ job' = NeverUnpaused(job, "KeyError")
                /\ UNCHANGED token_types
           ELSE /\ job' = [job EXCEPT !.pc = "paused_callback_set_validity"]
                /\ token_types' =
                     AddTokenType(token_types, locals.group_id,
                         TokenTypeEntry("SLP129", ParentName(token_types, child_id)))
    /\ UNCHANGED <<checkerVars, graphVars, validator, call, ret, tx_tokinfo, nested, network,
                   slpv1_validity, wallet_lock, wallet_thread>>

\* lib callback, lines 372-382: under the wallet lock the child's entry
\* gets its group_id, the records of the parent and of the child genesis
\* the validity; restart_nft_job (394-396) stores it on the validator and
\* unpauses the job.
lib_callback_set_validity ==
    /\ job.pc = "paused_callback_set_validity"
    /\ wallet_lock = "free"
    /\ LET child_id == job.genesis_tx[1].txid
           parent_txid == job.nft_parent_tx[1].txid
           locals == job.callback[1]
       IN  IF ~HasTokenType(token_types, child_id)
           THEN /\ job' = NeverUnpaused(job, "KeyError")
                /\ UNCHANGED <<token_types, tx_tokinfo>>
           ELSE /\ token_types' = [token_types EXCEPT ![child_id].group_id = locals.group_id]
                /\ tx_tokinfo' = [tx_tokinfo EXCEPT ![parent_txid].validity = locals.val,
                                                    ![child_id].validity = locals.val]
                /\ job' = [job EXCEPT !.nft_parent_validity = locals.val,
                                      !.pc = "idle", !.callback = None]
    /\ UNCHANGED <<checkerVars, graphVars, validator, call, ret, nested, network,
                   slpv1_validity, wallet_lock, wallet_thread>>

\* Another thread of the program (the GUI, a command) registers the group
\* token: it takes the wallet lock, ...
wallet_thread_lock ==
    /\ wallet_thread = "idle"
    /\ wallet_lock = "free"
    /\ wallet_lock' = "wallet_thread"
    /\ wallet_thread' = "locked"
    /\ UNCHANGED <<checkerVars, graphVars, validator, call, ret, job, tx_tokinfo, nested, network,
                   token_types, slpv1_validity>>

\* ... and, holding it, adds the entry if the registry has none, then
\* releases the lock.
wallet_thread_add_token_type ==
    /\ wallet_thread = "locked"
    /\ LET group_id == GroupIdOf(network.parent)
       IN  token_types' =
             IF HasTokenType(token_types, group_id) THEN token_types
             ELSE AddTokenType(token_types, group_id,
                               TokenTypeEntry("SLP129", <<"named by the user">>))
    /\ wallet_lock' = "free"
    /\ wallet_thread' = "done"
    /\ UNCHANGED <<checkerVars, graphVars, validator, call, ret, job, tx_tokinfo, nested, network,
                   slpv1_validity>>

\* done_callback (149-169, lib 163-184) of a job of make_job, run when the
\* job stops: the validities of its nodes are saved to the wallet.
done_callback ==
    /\ call.op = "done_callback"
    /\ ret = NotCalled
    /\ slpv1_validity' = SaveValidity(slpv1_validity, call.nodes)
    /\ ret' = Returned(None)
    /\ UNCHANGED <<checkerVars, graphVars, validator, call, job, tx_tokinfo, nested, network,
                   token_types, wallet_lock, wallet_thread>>

NextNFT1 ==
    \/ done_callback
    \/ call_get_info
    \/ call_check_needed
    \/ call_validate
    \/ download_nft_genesis
    \/ download_nft_parent_tx
    \/ start_NFT_parent_job
    \/ nested_job_callback
    \/ callback_add_token_type
    \/ callback_set_validity
    \/ lib_download_nft_genesis
    \/ lib_download_nft_parent_tx
    \/ lib_start_NFT_parent_job
    \/ lib_nested_job_callback
    \/ lib_callback_add_token_type
    \/ lib_callback_set_validity
    \/ wallet_thread_lock
    \/ wallet_thread_add_token_type

SpecNFT1 == InitNFT1 /\ [][NextNFT1]_vars

\* ------------------------------------------------- the paused child job
\* The child job of the lib validator alone, from the call of validate that
\* pauses it to the callback that unpauses it.  The network's thread runs
\* dl_cb for every response and the job manager runs the nested job to its
\* end, so each step of the chain is taken once it can be; the other thread
\* of the wallet releases the lock it took, and may never take it.
InitLib ==
    /\ NoCandidate
    /\ NoGraphs
    /\ (InitLibJob \/ InitRegistry)
    /\ validator.module = LIB

NextLib ==
    \/ call_validate
    \/ lib_download_nft_genesis
    \/ lib_download_nft_parent_tx
    \/ lib_start_NFT_parent_job
    \/ lib_nested_job_callback
    \/ lib_callback_add_token_type
    \/ lib_callback_set_validity
    \/ wallet_thread_lock
    \/ wallet_thread_add_token_type

FairLib ==
    /\ WF_vars(lib_download_nft_genesis)
    /\ WF_vars(lib_download_nft_parent_tx)
    /\ WF_vars(lib_start_NFT_parent_job)
    /\ WF_vars(lib_nested_job_callback)
    /\ WF_vars(lib_callback_add_token_type)
    /\ WF_vars(lib_callback_set_validity)
    /\ WF_vars(wallet_thread_add_token_type)

SpecLib == InitLib /\ [][NextLib]_vars /\ FairLib

\* ----------------------------------------------------- input resolution
\* A child job whose parent is fetched and whose nested parent job is over
\* (validity Unknown, Valid or Invalid(3)), at a SEND root node; the parent
\* declares a quantity of 1 or 0.
ResolveParents == {ParentTx(NftSend(129, "tG", <<0, 1>>)), ParentTx(NftSend(129, "tG", <<0, 0>>))}
InitWithParent ==
    /\ validator \in {[module |-> m, token_id_hex |-> "tA"] : m \in {ELECTRONCASH, LIB}}
    /\ call = NoCall
    /\ ret = NotCalled
    /\ \E parent \in ResolveParents :
         /\ network = [genesis |-> GenesisTx(1), parent |-> parent]
         /\ tx_tokinfo = PutTokinfo(<<>>, parent.txid, ParentTokinfo(parent))
    /\ \E myinfo \in Quantities, inputs_info \in InputsInfos, v \in {0, 1, 3} :
         job = [NewJob(TRUE, [myinfo |-> myinfo, inputs_info |-> inputs_info])
                  EXCEPT !.genesis_tx = Some(network.genesis),
                         !.nft_parent_tx = Some(network.parent),
                         !.nft_parent_validity = v]
    /\ nested = {}
    /\ ChildRegistered

InitResolve ==
    /\ NoCandidate
    /\ NoGraphs
    /\ InitWithParent

\* The list new is the list old after the graph resolved some of its Unknown
\* inputs to Valid or to an invalid code; the contributions are the same.
Resolves(old, new) ==
    /\ Len(new) = Len(old)
    /\ \A i \in DOMAIN old :
          /\ new[i].qty = old[i].qty
          /\ new[i].validity # old[i].validity =>
                (old[i].validity = 0 /\ new[i].validity # 0)

\* The graph resolves inputs of the root node for which validate has
\* returned: their validity goes from Unknown(0) to a decided code.
resolve_input ==
    /\ job.pc = "idle"
    /\ call.op = "validate" /\ call.node = "root"
    /\ call.inputs_info = job.root.inputs_info
    /\ ret.kind \in {Valid.kind, Pending.kind}
    /\ \E new \in InputsInfos :
         /\ new # job.root.inputs_info
         /\ Resolves(job.root.inputs_info, new)
         /\ job' = [job EXCEPT !.root.inputs_info = new,
                               !.resolved_from =
                                   Some([inputs_info |-> job.root.inputs_info,
                                         ret |-> ret])]
    /\ UNCHANGED <<checkerVars, graphVars, walletVars, validator, call, ret, tx_tokinfo,
                   nested, network>>

NextResolve ==
    \/ call_validate
    \/ resolve_input

SpecResolve == InitResolve /\ [][NextResolve]_vars

\* ----------------------------------------------------- graphs and jobs
\* Threads of the program call get_graph and kill_graph on the graphs of
\* the token ids below; make_job is called for one transaction.
Threads == {"t1", "t2"}
GraphTokenIds == {"tA", "tG"}
GraphTokenTypes == {65, 129, 1}
IdleThread == [pc |-> "idle", token_id_hex |-> "none", token_type |-> 0]
NoWalletJob ==
    /\ job = NoJob
    /\ tx_tokinfo = <<>>
    /\ nested = {}
    /\ network = <<>>
    /\ NoWalletTables

InitGetGraph ==
    /\ validator \in {[module |-> m, token_id_hex |-> "none"] : m \in {ELECTRONCASH, LIB}}
    /\ call = NoCall
    /\ ret = NotCalled
    /\ NoWalletJob
    /\ graph_db = <<>>
    /\ graph_db_lock = "free"
    /\ threads = [t \in Threads |-> IdleThread]
    /\ graphs = {}
    /\ kills = [t \in GraphTokenIds |-> 0]
    /\ returned = {}
    /\ queued = {}

\* The transactions make_job is called for: without outputs, with a first
\* output that does not parse, a COMMIT, or a GENESIS, MINT or SEND; the
\* graph of the token may exist already.
MakeJobMsgs ==
    {InvalidMsg, UnsupportedMsg, NftCommit(129),
     NftSend(65, "tA", <<0, 1>>), NftSend(129, "tG", <<0, 1>>), NftSend(1, "tG", <<0, 1>>),
     NftMint(129, "tG", 1), NftGenesis(65, None, 0, 1)}
MakeJobTxs ==
    {[txid |-> "tA", no_outputs |-> n, slp_msg |-> m] :
        n \in BOOLEAN, m \in MakeJobMsgs}
NftTypes == {"SLP65", "SLP129", "SLP129_65"}
InitMakeJob ==
    /\ validator \in {[module |-> m, token_id_hex |-> "none"] : m \in {ELECTRONCASH, LIB}}
    /\ \E t \in MakeJobTxs, nft_type \in NftTypes :
         /\ (validator.module = LIB => nft_type = "SLP129")
         /\ call = [op |-> "make_job", tx |-> t, nft_type |-> nft_type]
    /\ ret = NotCalled
    /\ NoWalletJob
    /\ \/ /\ graph_db = <<>>
          /\ graphs = {}
       \/ \E token_id \in GraphTokenIds, v \in {"Validator_SLP1", "Validator_NFT1"} :
            /\ graph_db = [t \in {token_id} |-> 1]
            /\ graphs = {[id |-> 1, token_id_hex |-> token_id, made_after |-> 0,
                          validator |-> v]}
    /\ graph_db_lock = "free"
    /\ threads = [t \in Threads |-> IdleThread]
    /\ kills = [t \in GraphTokenIds |-> 0]
    /\ returned = {}
    /\ queued = {}

\* commands.py, slpvalidate (868-918): the command is given the id of a
\* transaction that the wallet or the server knows or not, whose first
\* output declares a token type.
SlpValidateCalls ==
    {[op |-> "slpvalidate", found |-> f, token_type |-> tt, pc |-> "called",
      fired |-> FALSE, validity |-> 0] :
        f \in BOOLEAN, tt \in GraphTokenTypes}
\* Line 881: the command works on graph contexts of its own, new and empty.
InitSlpValidate ==
    /\ validator = [module |-> ELECTRONCASH, token_id_hex |-> "none"]
    /\ call \in SlpValidateCalls
    /\ ret = NotCalled
    /\ NoWalletJob
    /\ graph_db = <<>>
    /\ graphs = {}
    /\ graph_db_lock = "free"
    /\ threads = [t \in Threads |-> IdleThread]
    /\ kills = [t \in GraphTokenIds |-> 0]
    /\ returned = {}
    /\ queued = {}

InitGraph ==
    /\ NoCandidate
    /\ (InitGetGraph \/ InitMakeJob \/ InitSlpValidate)

\* A new TokenGraph for token_id, the one more that was created.
NewGraph(token_id, token_type) ==
    [id |-> Cardinality(graphs) + 1, token_id_hex |-> token_id,
     made_after |-> kills[token_id],
     validator |-> ValidatorOfGraph(validator.module, token_type)]
StoreGraph(db, token_id, id) ==
    [t \in DOMAIN db \cup {token_id} |-> IF t = token_id THEN id ELSE db[t]]
Return(token_id, id) ==
    [token_id_hex |-> token_id, id |-> id, after |-> kills[token_id]]

\* get_graph (37-38, lib 34-35): a thread enters "with graph_db_lock".
get_graph_lock ==
    /\ call.op = NoCall.op
    /\ graph_db_lock = "free"
    /\ \E t \in Threads, token_id \in GraphTokenIds, token_type \in GraphTokenTypes :
        /\ threads[t].pc = "idle"
        /\ threads' = [threads EXCEPT ![t] = [pc |-> "locked", token_id_hex |-> token_id,
                                              token_type |-> token_type]]
        /\ graph_db_lock' = t
    /\ UNCHANGED <<checkerVars, validator, call, ret, job, tx_tokinfo, nested, network,
                   walletVars, graph_db, graphs, kills, returned, queued>>

\* get_graph under the lock (39-53, lib 36-51): the graph stored for the
\* token id is returned; otherwise a graph is made with the validator of
\* the token type, stored, and in electroncash returned.
get_graph ==
    \E t \in Threads :
        LET token_id == threads[t].token_id_hex
            new == NewGraph(token_id, threads[t].token_type)
        IN
        /\ threads[t].pc = "locked"
        /\ IF token_id \in DOMAIN graph_db
           THEN /\ returned' = returned \cup {Return(token_id, graph_db[token_id])}
                /\ threads' = [threads EXCEPT ![t] = IdleThread]
                /\ graph_db_lock' = "free"
                /\ UNCHANGED <<graph_db, graphs>>
           ELSE IF new.validator = "unbound"
           THEN /\ threads' = [threads EXCEPT ![t].pc = "UnboundLocalError"]
                /\ graph_db_lock' = "free"
                /\ UNCHANGED <<graph_db, graphs, returned>>
           ELSE /\ Cardinality(graphs) < MaxGraphs
                /\ graphs' = graphs \cup {new}
                /\ graph_db' = StoreGraph(graph_db, token_id, new.id)
                /\ IF validator.module = ELECTRONCASH
                   THEN /\ returned' = returned \cup {Return(token_id, new.id)}
                        /\ threads' = [threads EXCEPT ![t] = IdleThread]
                        /\ graph_db_lock' = "free"
                   ELSE /\ threads' = [threads EXCEPT ![t].pc = "stored"]
                        /\ UNCHANGED <<graph_db_lock, returned>>
        /\ UNCHANGED <<checkerVars, validator, call, ret, job, tx_tokinfo, nested, network,
                       walletVars, kills, queued>>

\* lib get_graph, line 53: "return graph_db[token_id_hex]" reads the table
\* again after the store.
lib_get_graph_return ==
    \E t \in Threads :
        LET token_id == threads[t].token_id_hex
        IN
        /\ threads[t].pc = "stored"
        /\ IF token_id \in DOMAIN graph_db
           THEN /\ returned' = returned \cup {Return(token_id, graph_db[token_id])}
                /\ threads' = [threads EXCEPT ![t] = IdleThread]
           ELSE /\ threads' = [threads EXCEPT ![t].pc = "KeyError"]
                /\ UNCHANGED returned
        /\ graph_db_lock' = "free"
        /\ UNCHANGED <<checkerVars, validator, call, ret, job, tx_tokinfo, nested, network,
                       walletVars, graph_db, graphs, kills, queued>>

\* kill_graph (lib 54-61, without graph_db_lock; in electroncash a method
\* of GraphContext that takes the lock): the graph of the token id is
\* removed from the table.
kill_graph ==
    /\ call.op = NoCall.op
    /\ validator.module = ELECTRONCASH => graph_db_lock = "free"
    /\ \E token_id \in DOMAIN graph_db :
        /\ kills[token_id] < MaxKills
        /\ graph_db' = [t \in DOMAIN graph_db \ {token_id} |-> graph_db[t]]
        /\ kills' = [kills EXCEPT ![token_id] = @ + 1]
    /\ UNCHANGED <<checkerVars, validator, call, ret, job, tx_tokinfo, nested, network,
                   walletVars, graph_db_lock, threads, graphs, returned, queued>>

\* make_job (78-201, lib 98-188) for one transaction: setup_job gets or
\* makes the graph of the token, the job is made and given to the job
\* manager (not for nft_type 'SLP129_65').
call_make_job ==
    /\ call.op = "make_job"
    /\ ret.kind = NotCalled.kind
    /\ LET t == call.tx
           token_id == JobTokenId(t.txid, t.slp_msg)
           in_graph_db == token_id \in DOMAIN graph_db
           made == IF validator.module = ELECTRONCASH
                   THEN make_job(t.no_outputs, t.slp_msg, call.nft_type)
                   ELSE lib_make_job(t.no_outputs, t.slp_msg, in_graph_db)
           new == NewGraph(token_id, t.slp_msg.token_type)
       IN  /\ ret' = made
           /\ IF IsValidatable(t.no_outputs, t.slp_msg) /\ made.kind = MadeJob.kind
              THEN /\ graph_db' = IF in_graph_db THEN graph_db
                                  ELSE StoreGraph(graph_db, token_id, new.id)
                   /\ graphs' = IF in_graph_db THEN graphs ELSE graphs \cup {new}
                   /\ queued' = IF call.nft_type = "SLP129_65" THEN queued
                                 ELSE queued \cup
                                        {[txid |-> t.txid,
                                          class |-> JobClass(validator.module, call.nft_type),
                                          graph |-> IF in_graph_db THEN graph_db[token_id]
                                                    ELSE new.id]}
              ELSE UNCHANGED <<graph_db, graphs, queued>>
    /\ UNCHANGED <<checkerVars, validator, call, job, tx_tokinfo, nested, network,
                   walletVars, graph_db_lock, threads, kills, returned>>

\* The positional parameters without a default of GraphContext_NFT1.make_job
\* (78) and of GraphContext.make_job of the type-1 validator, after self.
MakeJobParameters(token_type) ==
    IF token_type = 1 THEN <<"tx", "wallet", "network">>
    ELSE <<"tx", "wallet", "network", "nft_type">>
\* The positional arguments slpvalidate passes to make_job (900, 902);
\* debug and reset are passed by keyword.
SlpValidateArguments == <<"tx", "wallet", "network">>
\* A call binds the positional arguments to the parameters in order; a
\* parameter without a default that gets none is a TypeError.
CallMakeJob(token_type) ==
    IF Len(SlpValidateArguments) < Len(MakeJobParameters(token_type))
    THEN Raise("TypeError", "make_job() missing 1 required positional argument: 'nft_type'")
    ELSE MadeJob

\* validity_states (229-235).
validity_states ==
    <<"Valid", "Invalid: not SLP / malformed SLP", "Invalid: insufficient valid inputs",
      "Invalid: bad parent for child NFT1 Genesis, or wrong input token type">>
ValidityName(validity) == IF validity = 0 THEN "Unknown" ELSE validity_states[validity]

\* slpvalidate up to the wait (881-903): the transaction is looked up and
\* parsed, and the job is made by the context of the token type.
slpvalidate ==
    /\ call.op = "slpvalidate"
    /\ call.pc = "called"
    /\ LET made == CallMakeJob(call.token_type)
       IN  IF ~call.found
           THEN /\ ret' = Raise("RuntimeError", "Unknown transaction")
                /\ call' = [call EXCEPT !.pc = "done"]
           ELSE IF made.kind = MadeJob.kind
           THEN /\ call' = [call EXCEPT !.pc = "waiting"]
                /\ UNCHANGED ret
           ELSE /\ ret' = made
                /\ call' = [call EXCEPT !.pc = "done"]
    /\ UNCHANGED <<checkerVars, validator, job, tx_tokinfo, nested, network,
                   walletVars, graphVars>>

\* The job ends while the command waits: its completion callback puts the
\* job on the queue of the command.
slpvalidate_callback ==
    /\ call.op = "slpvalidate"
    /\ call.pc = "waiting"
    /\ ~call.fired
    /\ \E validity \in 0..4 :
         call' = [call EXCEPT !.fired = TRUE, !.validity = validity]
    /\ UNCHANGED <<checkerVars, validator, ret, job, tx_tokinfo, nested, network,
                   walletVars, graphVars>>

\* slpvalidate from the wait on (904-918): q.get(timeout=3) returns when the
\* callback has fired and raises Empty otherwise; a finished job of a
\* Validator_NFT1 graph is returned as a handle too.
slpvalidate_return ==
    /\ call.op = "slpvalidate"
    /\ call.pc = "waiting"
    /\ ret' = IF ~call.fired THEN Returned("job")
              ELSE IF ValidatorOfGraph(ELECTRONCASH, call.token_type) = "Validator_NFT1"
              THEN Returned("job")
              ELSE Returned(ValidityName(call.validity))
    /\ call' = [call EXCEPT !.pc = "done"]
    /\ UNCHANGED <<checkerVars, validator, job, tx_tokinfo, nested, network,
                   walletVars, graphVars>>

NextGraph ==
    \/ get_graph_lock
    \/ get_graph
    \/ lib_get_graph_return
    \/ kill_graph
    \/ call_make_job
    \/ slpvalidate
    \/ slpvalidate_callback
    \/ slpvalidate_return

SpecGraph == InitGraph /\ [][NextGraph]_vars

\* ------------------------------------------------------------- properties
\* Vocabulary of the properties, stated on the state and not through the
\* operators of the check.
Called == pc # "built"
Passed == Called /\ result = ReturnTrue
Msg == tx.slp_msg
IsSendTx == Msg.transaction_type = "SEND"
IsNonTokenTx == IsParsingError(Msg)
Inputs == DOMAIN tx.inputs
HasRecord(i) == TxoKey(tx.inputs[i]) \in DOMAIN slp_txo
RecordOf(i) == slp_txo[TxoKey(tx.inputs[i])]
BurnListGiven == coins_to_burn # <<>>
\* Input i is an outpoint of the burn list.
Listed(i) ==
    \E k \in DOMAIN coins_to_burn :
        /\ coins_to_burn[k].prevout_hash = tx.inputs[i].prevout_hash
        /\ coins_to_burn[k].prevout_n = tx.inputs[i].prevout_n
\* Coin k of the burn list is spent by the candidate.
Spent(k) ==
    \E i \in Inputs :
        /\ coins_to_burn[k].prevout_hash = tx.inputs[i].prevout_hash
        /\ coins_to_burn[k].prevout_n = tx.inputs[i].prevout_n

\* Sum of the integer quantities of the recorded inputs 1..k.
RECURSIVE InputTokenSumTo(_)
InputTokenSumTo(k) ==
    IF k = 0 THEN 0
    ELSE InputTokenSumTo(k - 1)
           + (IF HasRecord(k) /\ IsInt(RecordOf(k).qty) THEN RecordOf(k).qty ELSE 0)
InputTokenSum == InputTokenSumTo(Len(tx.inputs))
DeclaredOutputSum == SumSeq(Msg.token_output)
\* Sum of the integer values of the coins 1..k of the burn list that the
\* candidate spends.
RECURSIVE SpentBurnSumTo(_)
SpentBurnSumTo(k) ==
    IF k = 0 THEN 0
    ELSE SpentBurnSumTo(k - 1)
           + (IF Spent(k) /\ IsInt(coins_to_burn[k].token_value)
              THEN coins_to_burn[k].token_value ELSE 0)
SpentBurnSum == SpentBurnSumTo(Len(coins_to_burn))

\* The burn arguments come together: a list with an integer amount, and no
\* nonzero amount without a list.
ArgsConsistent ==
    /\ BurnListGiven => amt_to_burn # None
    /\ ~BurnListGiven => ~Truthy(amt_to_burn)
\* Outpoint n of a source transaction with message m carries token value.
TokenBearing(m, n) ==
    \/ /\ m.transaction_type = "SEND"
       /\ n < Len(m.token_output)
       /\ m.token_output[n + 1] # 0
    \/ /\ m.transaction_type = "GENESIS"
       /\ \/ n = 1 /\ m.initial_token_mint_quantity # 0
          \/ Truthy(m.mint_baton_vout) /\ n = m.mint_baton_vout[1]
    \/ /\ m.transaction_type = "MINT"
       /\ \/ n = 1 /\ m.additional_token_quantity # 0
          \/ Truthy(m.mint_baton_vout) /\ n = m.mint_baton_vout[1]
SourceKnown(i) == tx.inputs[i].prevout_hash \in DOMAIN transactions
SourceOfInput(i) == transactions[tx.inputs[i].prevout_hash]
SourceUnsupported(i) ==
    SourceKnown(i) /\ SourceOfInput(i).transaction_type = "SlpUnsupportedSlpTokenType"
\* Input i spends a token-bearing outpoint of a known source transaction
\* that the token-output table does not record.
Untracked(i) ==
    /\ SourceKnown(i)
    /\ TokenBearing(SourceOfInput(i), tx.inputs[i].prevout_n)
    /\ ~HasRecord(i)
\* No input is stopped by step 1 (or step 1 is switched off).
Step1Clean ==
    \/ ~require_tx_in_wallet
    \/ \A i \in Inputs : SourceKnown(i) /\ ~SourceUnsupported(i) /\ ~Untracked(i)
\* Every check before the candidate's own metadata is looked at passes.
ReachesStep3 == ArgsConsistent /\ Step1Clean

\* Every recorded input of nonzero quantity has the token id the candidate
\* declares.
TokenIdsMatch ==
    \A i \in Inputs :
        (HasRecord(i) /\ RecordOf(i).qty # 0) => RecordOf(i).token_id = Msg.token_id_hex
\* The first index (counted from 0) of the declared token outputs that is
\* missing or of the wrong type, or -1.
BadOutputIndexes ==
    {i \in 0 .. Len(Msg.token_output) - 1 :
        \/ i >= Len(tx.outputs)
        \/ i = 0 /\ tx.outputs[1].type # TYPE_SCRIPT
        \/ i >= 1 /\ tx.outputs[i + 1].kind \notin {ADDR_P2PKH, ADDR_P2SH}}
FirstBadOutput ==
    IF BadOutputIndexes = {} THEN -1
    ELSE CHOOSE i \in BadOutputIndexes : \A j \in BadOutputIndexes : i <= j

\* C1: in _mktx and _mktx_slp a transaction is signed, added to the wallet,
\* put into the history or saved only in a state where check_tx_slp has
\* returned True for that same transaction; after a raise nothing of this
\* happens.
C1_SignOnlyAfterCheck ==
    [][(\/ signed' # signed
        \/ transactions' # transactions
        \/ history' # history
        \/ saved' # saved)
       => /\ result = ReturnTrue
          /\ checked_tx = tx
          /\ signed' \subseteq {checked_tx}]_vars
C1_Witness ==
    /\ caller = "_mktx" /\ pc = "added" /\ tx \in signed
    /\ tx.txid \in DOMAIN transactions /\ saved

\* C2: a SEND without burn list passes only with input sum = output sum; where
\* the quantity comparison is reached, a smaller input sum raises
\* SlpInputsTooLow and a larger one SlpInputsTooHigh.
C2_SendExactWithoutBurn ==
    (Called /\ IsSendTx /\ ~BurnListGiven) =>
        /\ result = ReturnTrue => InputTokenSum = DeclaredOutputSum
        /\ (/\ ReachesStep3
            /\ TokenIdsMatch)
           => /\ InputTokenSum < DeclaredOutputSum => result.kind = "SlpInputsTooLow"
              /\ InputTokenSum > DeclaredOutputSum => result.kind = "SlpInputsTooHigh"
C2_Witness ==
    /\ Passed /\ IsSendTx /\ ~BurnListGiven
    /\ Msg.token_output = <<0, 1, 1>> /\ InputTokenSum = 2

\* C3: a SEND with a burn list and a burn amount passes only with
\* input sum - burn amount = output sum; where the quantity comparison is
\* reached, any other relation raises SlpInputsTooLow (input below outputs)
\* or InvalidBurnAmount.
C3_SendExactWithBurn ==
    (Called /\ IsSendTx /\ BurnListGiven /\ amt_to_burn # None) =>
        /\ result = ReturnTrue => InputTokenSum - amt_to_burn[1] = DeclaredOutputSum
        /\ (/\ Step1Clean
            /\ TokenIdsMatch
            /\ InputTokenSum - amt_to_burn[1] # DeclaredOutputSum)
           => result.kind = IF InputTokenSum < DeclaredOutputSum
                            THEN "SlpInputsTooLow" ELSE "InvalidBurnAmount"
C3_Witness ==
    /\ Passed /\ IsSendTx /\ BurnListGiven
    /\ amt_to_burn = Some(1) /\ InputTokenSum = 2 /\ DeclaredOutputSum = 1

\* C4: a candidate without token metadata checked with a burn list passes
\* only if the integer values of the listed coins it spends sum up to
\* amt_to_burn.
C4_BurnAmountMatches ==
    (Passed /\ IsNonTokenTx /\ BurnListGiven) => SpentBurnSum = amt_to_burn[1]

\* C5: a GENESIS or MINT passes only if output 1 exists and is P2PKH or
\* P2SH, with or without a baton, and a declared baton output exists and is
\* P2PKH or P2SH.
C5_ReceiverAndBatonOutputs ==
    (Passed /\ Msg.transaction_type \in {"GENESIS", "MINT"}) =>
        /\ Len(tx.outputs) >= 2
        /\ tx.outputs[2].kind \in {ADDR_P2PKH, ADDR_P2SH}
        /\ Truthy(Msg.mint_baton_vout) =>
              /\ Msg.mint_baton_vout[1] < Len(tx.outputs)
              /\ tx.outputs[Msg.mint_baton_vout[1] + 1].kind \in {ADDR_P2PKH, ADDR_P2SH}

\* C6 as claimed: a candidate that spends an untracked token-bearing
\* outpoint of a known source fails with SlpMissingInputRecord whatever its
\* other inputs and the burn arguments are (require_tx_in_wallet left at
\* its default).
C6_AlwaysMissingInputRecord ==
    (Called /\ require_tx_in_wallet /\ \E i \in Inputs : Untracked(i))
        => result.kind = "SlpMissingInputRecord"
\* C6 amended: such a candidate never passes; it fails with
\* SlpMissingInputRecord when the burn arguments are consistent and no
\* earlier input has an unknown source or a source of unsupported token type.
C6_MissingInputRecord ==
    (Called /\ require_tx_in_wallet) =>
        \A i \in Inputs : Untracked(i) =>
            /\ result # ReturnTrue
            /\ (/\ ArgsConsistent
                /\ \A j \in 1 .. i - 1 : SourceKnown(j) /\ ~SourceUnsupported(j))
               => result.kind = "SlpMissingInputRecord"
C6_Witness ==
    /\ Called /\ require_tx_in_wallet /\ Len(tx.inputs) = 2
    /\ ~Untracked(1) /\ Untracked(2)
    /\ ~IsNonTokenTx /\ BurnListGiven
    /\ result.kind = "SlpMissingInputRecord"

\* Candidates that may spend recorded inputs only through the burn list.
IsBurnGated == IsNonTokenTx \/ Msg.transaction_type = "GENESIS"
\* C7 as claimed: for a non-token or GENESIS candidate that reaches step 3,
\* any recorded input that is not in the burn list raises
\* NonSlpTransactionHasSlpInputs.
C7_EveryRecordedInputListed ==
    (Called /\ IsBurnGated /\ ReachesStep3
        /\ \E i \in Inputs : HasRecord(i) /\ ~Listed(i))
        => result.kind = "NonSlpTransactionHasSlpInputs"
\* C7 amended: the rule covers every recorded input of a non-token
\* candidate, and the recorded inputs of nonzero quantity of a GENESIS.
Gated(i) ==
    /\ HasRecord(i)
    /\ Msg.transaction_type = "GENESIS" => RecordOf(i).qty # 0
C7_GatedInputsListed ==
    (Called /\ IsBurnGated) =>
        /\ result = ReturnTrue => \A i \in Inputs : Gated(i) => Listed(i)
        /\ (ReachesStep3 /\ \E i \in Inputs : Gated(i) /\ ~Listed(i))
              => result.kind = "NonSlpTransactionHasSlpInputs"
C7_Witness ==
    /\ Called /\ Msg.transaction_type = "GENESIS" /\ BurnListGiven
    /\ Len(tx.inputs) = 2 /\ Gated(1) /\ Listed(1) /\ Gated(2) /\ ~Listed(2)
    /\ result.kind = "NonSlpTransactionHasSlpInputs"

\* C8 as claimed: a SEND that reaches step 3 and spends a record of another
\* token id raises SlpWrongTokenID, whatever the record's quantity.
C8_AnyWrongTokenId ==
    (Called /\ IsSendTx /\ ReachesStep3
        /\ \E i \in Inputs : HasRecord(i) /\ RecordOf(i).token_id # Msg.token_id_hex)
        => result.kind = "SlpWrongTokenID"
\* C8 amended: the record must have a quantity other than 0 (an integer or
\* the baton marker); a record of quantity 0 is skipped whatever its token id.
C8_WrongTokenId ==
    (Called /\ IsSendTx) =>
        /\ result = ReturnTrue => TokenIdsMatch
        /\ (ReachesStep3 /\ ~TokenIdsMatch) => result.kind = "SlpWrongTokenID"
C8_Witness ==
    /\ Called /\ IsSendTx /\ Len(tx.inputs) = 2
    /\ HasRecord(1) /\ RecordOf(1).token_id = Msg.token_id_hex
    /\ HasRecord(2) /\ RecordOf(2) = Rec("tB", MINT_BATON)
    /\ result.kind = "SlpWrongTokenID"

\* C9: a SEND passes only if every declared output index exists, index 0 is
\* the script output and every later index is P2PKH or P2SH, indexes of
\* declared quantity 0 included; where the output loop is reached, the first
\* offending index raises MissingTokenReceiverOutpoint if it is missing and
\* BadSlpOutpointType if it is of the wrong type.
C9_SendOutputsExist ==
    (Called /\ IsSendTx) =>
        /\ result = ReturnTrue => BadOutputIndexes = {}
        /\ (/\ ReachesStep3 /\ TokenIdsMatch
            /\ InputTokenSum = DeclaredOutputSum + (IF BurnListGiven THEN amt_to_burn[1] ELSE 0)
            /\ BadOutputIndexes # {})
           => result.kind = IF FirstBadOutput >= Len(tx.outputs)
                            THEN "MissingTokenReceiverOutpoint"
                            ELSE "BadSlpOutpointType"
C9_Witness ==
    /\ Called /\ IsSendTx /\ Msg.token_output = <<0, 1, 0>>
    /\ Len(tx.outputs) = 3 /\ tx.outputs[3].kind = KIND_OTHER
    /\ tx.outputs[2].kind = ADDR_P2SH
    /\ result.kind = "BadSlpOutpointType"

\* C10: every failure of check_tx_slp is reported with one of the error
\* classes the checker defines, never with the generic Exception type that
\* only the message text tells apart.
C10_ClosedErrorKinds ==
    (Called /\ result # ReturnTrue)
        => result.kind \in ValidityErrorKinds \cup OtherErrorKinds

\* C11: check_tx_slp is side-effect free: after the call every entry of the
\* caller's coins_to_burn list (with the wallet's tables and the transaction)
\* equals its value before the call.  The call writes c['is_in_txn'] = True
\* into the caller's dicts (lines 89 and 217), so this step property fails.
C11_SideEffectFree ==
    [][check_tx_slp =>
         /\ coins_to_burn' = coins_to_burn
         /\ transactions' = transactions
         /\ slp_txo' = slp_txo
         /\ tx' = tx]_vars

\* C12: the pre-flight oracle is queried only when the network enables it
\* and only when every local check of the call has passed (so never when it
\* is disabled); when it is queried and answers not ok the call raises the
\* pre-flight Exception, whose message carries the reason the oracle stated.
C12_PreflightAfterLocalChecks ==
    [][check_tx_slp =>
         /\ preflight_queried' =>
               /\ SLP_PREFLIGHT_CHECK
               /\ LocalChecks(transactions, slp_txo, tx, coins_to_burn,
                              amt_to_burn, require_tx_in_wallet).err = NoErr
         /\ ~SLP_PREFLIGHT_CHECK => ~preflight_queried'
         /\ (preflight_queried' /\ ~slp_preflight'.ok) =>
               /\ result' = Raise("Exception", "preflight_rejected")
               /\ slp_preflight'.invalid_reason # KEY_ABSENT =>
                     message' = slp_preflight'.invalid_reason]_vars

\* The oracle was asked, refused with a stated reason, and the call raised.
C12_Witness ==
    /\ Called
    /\ preflight_queried
    /\ ~slp_preflight.ok
    /\ slp_preflight.invalid_reason = "invalid inputs"
    /\ pc = "raised"

\* ------------------------------------------------------------- validator properties
\* Vocabulary of the validator's properties.
GetInfoDone == call.op = "get_info" /\ ret.kind # NotCalled.kind
InfoTx == call.tx
InfoMsg == call.tx.slp_msg
InfoKind == call.tx.slp_msg.transaction_type
IsPrune(v) == ret.kind = "prune" /\ ret.validity = v
IsInfo == ret.kind = "info"
OfElectroncash == validator.module = ELECTRONCASH
OfLib == validator.module = LIB
\* The token id a transaction belongs to: its own id for a GENESIS, the
\* declared one otherwise.
InfoTokenId == IF InfoKind = "GENESIS" THEN InfoTx.txid ELSE InfoMsg.token_id_hex
TokenIdDiffers == InfoTokenId # validator.token_id_hex
\* A type-65 message of a kind that carries fields.
TypeOf65(k) ==
    /\ GetInfoDone
    /\ InfoTx.n_outputs >= 1
    /\ InfoKind = k
    /\ InfoMsg.token_type = 65
MalformedGenesis ==
    \/ InfoMsg.mint_baton_vout # None
    \/ InfoMsg.decimals # 0
    \/ InfoMsg.initial_token_mint_quantity # 1

\* C13 as stated: get_info classifies by the first matching rule of: no
\* outputs -> prune(2); unsupported token type -> prune(0); invalid metadata
\* -> prune(2); token type other than 65 -> prune(0); MINT -> prune(2);
\* COMMIT -> prune(0); token id differs -> prune(0); otherwise an Info triple.
C13_ClaimedRuleOrder ==
    GetInfoDone =>
        IF InfoTx.n_outputs = 0 THEN IsPrune(2)
        ELSE IF InfoKind = "SlpUnsupportedSlpTokenType" THEN IsPrune(0)
        ELSE IF InfoKind = "SlpInvalidOutputMessage" THEN IsPrune(2)
        ELSE IF InfoMsg.token_type # 65 THEN IsPrune(0)
        ELSE IF InfoKind = "MINT" THEN IsPrune(2)
        ELSE IF InfoKind = "COMMIT" THEN IsPrune(0)
        ELSE IF TokenIdDiffers THEN IsPrune(0)
        ELSE IsInfo

\* C13, amended: the list has, between COMMIT and the token id, the rules
\* of the kinds: a GENESIS that declares a baton, decimals other than 0 or a
\* quantity other than 1 is prune(2) even when its id differs (the lib copy
\* tests quantity > 1, and prunes a SEND not declaring exactly <<0, 1>>);
\* the token id is not compared by a validator without token id in
\* diff_testing_mode.
C13_RuleOrder ==
    GetInfoDone =>
        IF InfoTx.n_outputs = 0 THEN IsPrune(2)
        ELSE IF InfoKind = "SlpUnsupportedSlpTokenType" THEN IsPrune(0)
        ELSE IF InfoKind = "SlpInvalidOutputMessage" THEN IsPrune(2)
        ELSE IF InfoMsg.token_type # 65 THEN IsPrune(0)
        ELSE IF InfoKind = "MINT" THEN IsPrune(2)
        ELSE IF InfoKind = "COMMIT" THEN IsPrune(0)
        ELSE IF OfLib /\ InfoKind = "SEND" /\ InfoMsg.token_output \notin {<<0, 1>>}
        THEN IsPrune(2)
        ELSE IF OfElectroncash /\ InfoKind = "GENESIS" /\ MalformedGenesis THEN IsPrune(2)
        ELSE IF OfLib /\ InfoKind = "GENESIS"
                /\ (InfoMsg.mint_baton_vout # None \/ InfoMsg.decimals # 0
                    \/ InfoMsg.initial_token_mint_quantity > 1)
        THEN IsPrune(2)
        ELSE IF TokenIdDiffers
                /\ ~(call.diff_testing_mode /\ validator.token_id_hex = NO_TOKEN_ID)
        THEN IsPrune(0)
        ELSE IsInfo

\* A malformed GENESIS of another token id is pruned as malformed.
C13_Witness ==
    /\ TypeOf65("GENESIS") /\ OfElectroncash
    /\ InfoMsg.mint_baton_vout # None
    /\ TokenIdDiffers /\ ~call.diff_testing_mode
    /\ IsPrune(2)

\* C14: for every SEND transaction of the validator's token id get_info
\* returns a mask with every input relevant, the sum of all declared
\* quantities as own contribution, and one entry per transaction output:
\* the declared quantity at a declared index, None beyond the declared list.
C14_SendInfo ==
    (TypeOf65("SEND") /\ ~TokenIdDiffers) =>
        /\ IsInfo
        /\ ret.vin_mask = [i \in 1..InfoTx.n_inputs |-> TRUE]
        /\ ret.myinfo = InfoMsg.token_output[1] + InfoMsg.token_output[2]
                          + (IF Len(InfoMsg.token_output) = 3
                             THEN InfoMsg.token_output[3] ELSE 0)
        /\ Len(ret.outputs) = InfoTx.n_outputs
        /\ \A i \in 1..InfoTx.n_outputs :
              ret.outputs[i] = IF i <= Len(InfoMsg.token_output)
                               THEN Some(InfoMsg.token_output[i]) ELSE None

\* C15: for every GENESIS transaction (of the validator's token id) get_info
\* returns prune(2) if a baton is declared, the decimals are not 0 or the
\* initial quantity is not exactly 1, quantity 0 included; otherwise a mask
\* with no relevant input and the own contribution 'GENESIS'.
C15_GenesisUnitSupply ==
    (TypeOf65("GENESIS") /\ ~TokenIdDiffers) =>
        IF MalformedGenesis THEN IsPrune(2)
        ELSE /\ IsInfo
             /\ ret.vin_mask = [i \in 1..InfoTx.n_inputs |-> FALSE]
             /\ ret.myinfo = GENESIS

\* Vocabulary of the properties of validate: the call, the job's fields as
\* the call found them, and the sums over the inputs of the node.
ValidateDone == call.op = "validate" /\ ret.kind # InCall.kind
ParentKnown == call.nft_parent_tx # None
CallParentMsg == call.nft_parent_tx[1].slp_msg
\* The quantity the parent transaction declares (it parses whenever the
\* job got past its classification).
ParentQuantity ==
    IF CallParentMsg.transaction_type = "GENESIS" THEN CallParentMsg.initial_token_mint_quantity
    ELSE IF CallParentMsg.transaction_type = "MINT" THEN CallParentMsg.additional_token_quantity
    ELSE LET out == CallParentMsg.token_output
             q(i) == IF i <= Len(out) THEN out[i] ELSE 0
         IN  q(1) + q(2) + q(3)
CallInputSum(validities) ==
    LET in == call.inputs_info
        q(i) == IF i <= Len(in) /\ in[i].validity \in validities THEN in[i].qty ELSE 0
    IN  q(1) + q(2)
IsValid == ret.kind = "decided" /\ ret.ok /\ ret.validity = 1
IsInvalid(v) == ret.kind = "decided" /\ ~ret.ok /\ ret.validity = v
IsPending == ret.kind = "pending"
IsRaise(k) == ret.kind = k
\* A call for a SEND node with own contribution m > 0, of a child job whose
\* parent is known, not invalid, and carries a quantity.
SendNodeCall ==
    /\ ValidateDone
    /\ job.is_child
    /\ call.myinfo # GENESIS /\ call.myinfo > 0
    /\ ParentKnown /\ call.nft_parent_validity <= 1
    /\ ParentQuantity >= 1

\* C16 as stated: on a SEND node with own contribution m > 0, the parent
\* known and not invalid, validate returns Invalid(3) if the Unknown-or-Valid
\* input sum is below m, else Valid if the Valid input sum is at least m,
\* else Pending.
C16_ClaimedSendDecision ==
    SendNodeCall =>
        IF CallInputSum({0, 1}) < call.myinfo THEN IsInvalid(3)
        ELSE IF CallInputSum({1}) >= call.myinfo THEN IsValid
        ELSE IsPending

\* C16, amended: between the two tests the electroncash validator raises
\* when the Valid input sum exceeds 1 (the lib copy has no such test), so a
\* SEND node is decided Valid only with a Valid input sum >= m, and in
\* electroncash only with m = 1 and a Valid input sum of exactly 1.
C16_SendDecision ==
    SendNodeCall =>
        /\ IF CallInputSum({0, 1}) < call.myinfo THEN IsInvalid(3)
           ELSE IF OfElectroncash /\ CallInputSum({1}) > 1 THEN IsRaise("Exception")
           ELSE IF CallInputSum({1}) >= call.myinfo THEN IsValid
           ELSE IsPending
        /\ IsValid => CallInputSum({1}) >= call.myinfo
        /\ (IsValid /\ OfElectroncash) => (call.myinfo = 1 /\ CallInputSum({1}) = 1)

\* Two Valid inputs of one unit each on a SEND node of one unit: a raise.
C16_Witness ==
    /\ SendNodeCall /\ OfElectroncash
    /\ call.myinfo = 1
    /\ CallInputSum({1}) = 2
    /\ IsRaise("Exception")

\* C17: check_needed raises an internal error whenever the own contribution
\* is 'GENESIS'; otherwise its answer is true exactly for an integer
\* contribution greater than 0, false for None, the baton marker and 0.
C17_CheckNeeded ==
    (call.op = "check_needed" /\ ret.kind # NotCalled.kind) =>
        IF call.myinfo = GENESIS THEN IsRaise("RuntimeError")
        ELSE /\ ret.kind = "return"
             /\ ret.value = (/\ call.out_n # None
                             /\ call.out_n # Some(MINT_BATON)
                             /\ call.out_n # Some(0))

\* The baton marker of an input is not followed.
C17_Witness ==
    /\ call.op = "check_needed"
    /\ call.myinfo = 1
    /\ call.out_n = Some(MINT_BATON)
    /\ ret.kind = "return" /\ ret.value = FALSE

\* A call for a GENESIS node without inputs, of a child job, that has
\* returned.
GenesisNodeCall ==
    /\ ValidateDone
    /\ ret.kind \in {Valid.kind, Pending.kind}
    /\ job.is_child
    /\ call.myinfo = GENESIS
    /\ call.inputs_info = <<>>

\* C18 as stated: validate returns Valid for a child GENESIS node only when
\* the recorded parent validity is Valid(1), and while the parent validity
\* is Unknown the GENESIS decision is Pending.
C18_ClaimedGenesisGate ==
    GenesisNodeCall =>
        /\ IsValid => call.nft_parent_validity = 1
        /\ call.nft_parent_validity = 0 => IsPending

\* C18, amended: Valid only with parent validity Valid(1); while the parent
\* validity is Unknown the decision is Pending, except that the electroncash
\* validator decides Invalid(3) as soon as the fetched parent transaction
\* declares a quantity below 1.
C18_GenesisGate ==
    GenesisNodeCall =>
        /\ IsValid => call.nft_parent_validity = 1
        /\ call.nft_parent_validity = 0 =>
              IF OfElectroncash /\ ParentKnown /\ ParentQuantity < 1
              THEN IsInvalid(3) ELSE IsPending
        /\ (call.nft_parent_validity = 1 /\ ParentKnown /\ ParentQuantity >= 1) => IsValid

\* After the nested job of the parent ended Valid, the genesis node is Valid.
C18_Witness ==
    /\ GenesisNodeCall /\ OfElectroncash
    /\ call.node = "genesis"
    /\ nested # {}
    /\ call.nft_parent_validity = 1
    /\ IsValid

\* The fetched parent is not a well-formed group-token transaction at the
\* outpoint the child genesis' first input spends.
ParentFetched == OfElectroncash /\ job.pc # NoJob.pc /\ job.nft_parent_tx # None
FetchedParentMsg == job.nft_parent_tx[1].slp_msg
SpentIndex == job.genesis_tx[1].inputs[1].prevout_n
FetchedParentBad ==
    \/ FetchedParentMsg.transaction_type
         \in {"SlpInvalidOutputMessage", "SlpUnsupportedSlpTokenType"}
    \/ /\ FetchedParentMsg.transaction_type \in {"GENESIS", "MINT"}
       /\ SpentIndex # 1
    \/ /\ FetchedParentMsg.transaction_type = "SEND"
       /\ SpentIndex >= Len(FetchedParentMsg.token_output)
    \/ FetchedParentMsg.token_type # 129

\* C19: whenever the fetched parent is not a well-formed group-token
\* transaction at the expected outpoint, or its token type is not 129, the
\* job's parent validity is InvalidBadParent(4) and no nested parent job is
\* started, whether or not the wallet already had a record of the parent.
C19_BadParentForcesInvalid ==
    (ParentFetched /\ FetchedParentBad) =>
        /\ job.nft_parent_validity = 4
        /\ nested = {}

\* C20: once the parent validity of an NFT-child job is an invalid code
\* v > 1 it stays v, and every validate call made for the job, for the
\* root node and the genesis node alike, returns Invalid(v) whatever the
\* node's own contribution and inputs are.
C20_InvalidParentPropagates ==
    [][(OfElectroncash /\ job.pc # NoJob.pc /\ job.is_child
          /\ job.nft_parent_validity > 1) =>
          /\ job'.nft_parent_validity = job.nft_parent_validity
          /\ call_validate =>
                /\ ret'.kind = "decided" /\ ~ret'.ok
                /\ ret'.validity = job.nft_parent_validity]_vars

\* The root node, which alone would be Valid (own contribution 0), is
\* Invalid(4) after the parent was classified bad.
C20_Witness ==
    /\ ValidateDone /\ OfElectroncash /\ job.is_child
    /\ call.node = "root"
    /\ call.myinfo = 0
    /\ call.nft_parent_validity = 4
    /\ IsInvalid(4)

\* C22: an NFT-child validator never returns a decision for a SEND node
\* whose Valid input quantity exceeds 1: validate raises instead of
\* returning Valid, Invalid or Pending.  (Read for the calls that reach the
\* input sums: own contribution m > 0 covered by the Unknown-or-Valid
\* inputs, the parent known, not invalid and carrying a quantity.)
C22_ValidSumAboveOneRaises ==
    (SendNodeCall /\ CallInputSum({1}) > 1
       /\ CallInputSum({0, 1}) >= call.myinfo) =>
        IsRaise("Exception")

\* C29: on job completion done_callback writes into the wallet's validity
\* cache exactly the nodes of the job whose validity is not 0, each with its
\* node's validity; every other entry of the cache stays as it was, no
\* entry is created for a node left Unknown(0), and the cache never holds 0.
DoneCallbackStep ==
    call.op = "done_callback" /\ ret.kind = NotCalled.kind /\ ret'.kind # NotCalled.kind
C29_CacheGetsDecidedNodes ==
    [][DoneCallbackStep =>
        /\ \A t \in DOMAIN call.nodes : call.nodes[t] # 0 =>
              (t \in DOMAIN slpv1_validity' /\ slpv1_validity'[t] = call.nodes[t])
        /\ \A t \in DOMAIN slpv1_validity' :
              /\ slpv1_validity'[t] # 0
              /\ (t \notin DOMAIN call.nodes \/ call.nodes[t] = 0) =>
                    (t \in DOMAIN slpv1_validity /\ slpv1_validity'[t] = slpv1_validity[t])
        /\ DOMAIN slpv1_validity \subseteq DOMAIN slpv1_validity']_vars

\* done_callback has run for a job with an Unknown node that is not in the
\* cache, an Unknown node whose earlier entry is kept, and a decided node.
C29_Witness ==
    /\ call.op = "done_callback" /\ ret.kind # NotCalled.kind
    /\ "tR" \in DOMAIN call.nodes /\ call.nodes["tR"] = 0
    /\ "tR" \notin DOMAIN slpv1_validity
    /\ "tA" \in DOMAIN call.nodes /\ call.nodes["tA"] = 2
    /\ slpv1_validity["tA"] = 2

\* C30: a validity persisted for a transaction as Valid or Invalid, in the
\* validity cache or in the transaction-info table, is never written back
\* to Unknown(0) by a later job completion or nested-parent callback.
C30_PersistedValidityKept ==
    [][/\ \A t \in DOMAIN tx_tokinfo : tx_tokinfo[t].validity # 0 =>
             (t \in DOMAIN tx_tokinfo' /\ tx_tokinfo'[t].validity # 0)
       /\ \A t \in DOMAIN slpv1_validity :
             (t \in DOMAIN slpv1_validity' /\ slpv1_validity'[t] # 0)]_vars

\* The nested parent job of the child job has resolved and its callback is
\* over: it ran to its end or raised.
NestedJobResolved ==
    /\ job.pc \in {"idle", "never_unpaused"}
    /\ nested # {}
ChildId == job.genesis_tx[1].txid
ParentTxid == job.nft_parent_tx[1].txid
ParentGroupId == tx_tokinfo[ParentTxid].token_id
ResolvedValidity ==
    IF job.callback = None THEN job.nft_parent_validity ELSE job.callback[1].val

\* C28: after a nested parent job resolves, the token-type registry has an
\* entry of class SLP129 for the parent's group id and an entry of class
\* SLP65 for the child genesis id, the child's entry has group_id equal to
\* the parent's governing token id, and the transaction-info record of the
\* parent transaction holds the validity the nested job resolved.
C28_RegistryAfterParentJob ==
    NestedJobResolved =>
        /\ ParentGroupId \in DOMAIN token_types
        /\ token_types[ParentGroupId].class = "SLP129"
        /\ ChildId \in DOMAIN token_types
        /\ token_types[ChildId].class = "SLP65"
        /\ token_types[ChildId].group_id = ParentGroupId
        /\ tx_tokinfo[ParentTxid].validity = ResolvedValidity

\* C27: every read-modify-write sequence on a shared wallet table holds the
\* wallet lock from its first read to its last write, so no other thread's
\* update to the same entry is interleaved and lost: a thread that is
\* between the read and the write of a check-then-add holds the lock, and
\* no step replaces an entry that another thread has put in the registry
\* (only the group_id of an entry may be set).
BetweenReadAndWrite ==
    /\ job.pc \in {"callback_add_token_type", "paused_callback_add_token_type"}
    /\ ~job.callback[1].parent_seen
C27_ReadModifyWriteUnderLock ==
    [][/\ BetweenReadAndWrite => wallet_lock = "callback"
       /\ \A t \in DOMAIN token_types :
             /\ t \in DOMAIN token_types'
             /\ [token_types'[t] EXCEPT !.group_id = token_types[t].group_id]
                   = token_types[t]]_vars

\* C26: when the network answers the genesis fetch or the parent fetch
\* with an error response, or the wait ends without a response, validate
\* does not crash the worker: its thread is not left waiting, the call
\* returns Pending, the job's genesis and parent slots stay empty and the
\* job never goes on to the next phase with the transaction missing.
FetchFailed == job.pc # NoJob.pc /\ job.error_response # None
C26_FetchFailureIsPending ==
    FetchFailed =>
        /\ job.pc # "blocked"
        /\ ret.kind # InCall.kind => IsPending
        /\ job.pc \notin {"download_nft_parent_tx", "start_NFT_parent_job", "nested_job"}
        /\ job.error_response = Some("genesis") => job.genesis_tx = None
        /\ job.nft_parent_tx = None

\* C25: the fetch-completion and job-completion steps of a job are safe
\* when the owning wallet has been closed: if the job's weak wallet
\* reference resolves to nothing, no error is raised and no wallet table
\* is read or written (the tables stay as they were).
WalletClosed == job.pc # NoJob.pc /\ job.ref = "None"
C25_SafeWhenWalletClosed ==
    [][WalletClosed =>
        /\ ret'.kind # "AttributeError"
        /\ UNCHANGED <<tx_tokinfo, token_types, slpv1_validity>>]_vars

\* C21: while the nested parent-validation job runs the child job performs
\* no validate step; the child job is resumed exactly once per nested job,
\* by the nested job's completion callback (no nested job leaves the child
\* suspended for good), and the parent's resolved validity is stored for
\* the child before the child's validate is entered again.
NestedJobRunning ==
    job.pc \in {"nested_job", "callback_add_token_type", "callback_set_validity",
                "paused_nested_job", "paused_callback_add_token_type",
                "paused_callback_set_validity"}
C21_ChildSuspendedDuringParentJob ==
    [][/\ NestedJobRunning => call' = call
       /\ (NestedJobRunning /\ job'.pc = "idle") =>
             (job.callback # None /\ job'.nft_parent_validity = job.callback[1].val)
       /\ ~(nested' # {} /\ job'.pc = "never_unpaused")]_vars

\* C23: under any interleaving of concurrent get_graph calls at most one
\* TokenGraph is created per token id between two kills of that token id:
\* no two graphs of a token id are made after the same number of kills,
\* every call returns, and returns the same graph as every other call for
\* that token id between the same kills, and the graph's validator is one
\* of the two variants.
C23_OneGraphPerTokenId ==
    /\ \A g1 \in graphs, g2 \in graphs :
          (g1.token_id_hex = g2.token_id_hex /\ g1.made_after = g2.made_after) => g1 = g2
    /\ \A r1 \in returned, r2 \in returned :
          (r1.token_id_hex = r2.token_id_hex /\ r1.after = r2.after) => r1.id = r2.id
    /\ \A g \in graphs : g.validator \in {"Validator_NFT1", "Validator_SLP1"}
    /\ \A t \in DOMAIN threads : threads[t].pc \notin {"UnboundLocalError", "KeyError"}

\* C24: make_job returns a job for a validatable transaction, and returns
\* None, without raising and without registering a graph or queuing a job,
\* when the transaction is not of a validatable type (no outputs, metadata
\* that does not parse, or a kind other than GENESIS, MINT and SEND).
MakeJobStep ==
    call.op = "make_job" /\ ret.kind = NotCalled.kind /\ ret'.kind # NotCalled.kind
ValidatableTx ==
    /\ ~call.tx.no_outputs
    /\ call.tx.slp_msg.transaction_type \in {"GENESIS", "MINT", "SEND"}
C24_MakeJobOrNone ==
    [][MakeJobStep =>
        IF ValidatableTx THEN ret'.kind = "job"
        ELSE /\ ret'.kind = "None"
             /\ UNCHANGED <<graph_db, graphs, queued>>]_vars

\* ------------------------------------------------------------- step 1 exemptions
\* The inputs C32 lists as exempt from the token-output-table requirement:
\* the source is not a token transaction, or a SEND spent beyond its
\* declared outputs or at a declared quantity 0, or a GENESIS/MINT spent at
\* an index that is neither 1 nor the declared baton index, or at index 1
\* with minted quantity 0.
ExemptAsListed(i) ==
    LET m == SourceOfInput(i)
        n == tx.inputs[i].prevout_n
    IN  \/ m.transaction_type = "SlpInvalidOutputMessage"
        \/ /\ m.transaction_type = "SEND"
           /\ \/ n >= Len(m.token_output)
              \/ m.token_output[n + 1] = 0
        \/ /\ m.transaction_type \in {"GENESIS", "MINT"}
           /\ n # 1
           /\ ~(Truthy(m.mint_baton_vout) /\ n = m.mint_baton_vout[1])
        \/ /\ m.transaction_type = "MINT"
           /\ n = 1
           /\ m.additional_token_quantity = 0
        \/ /\ m.transaction_type = "GENESIS"
           /\ n = 1
           /\ m.initial_token_mint_quantity = 0
\* Input i, of a known source, is not exempt and has no record.
RecordMissing(i) == SourceKnown(i) /\ ~ExemptAsListed(i) /\ ~HasRecord(i)

\* C32 as claimed: where step 1 runs (consistent burn arguments,
\* require_tx_in_wallet on), every input of a known source that is not in
\* the list of exemptions and has no record makes the check fail with
\* SlpMissingInputRecord.
C32_ClaimedRecordRequirement ==
    (Called /\ require_tx_in_wallet /\ ArgsConsistent) =>
        \A i \in Inputs : RecordMissing(i) => result.kind = "SlpMissingInputRecord"
\* C32 amended: in step 1 an input of a known source is exempt from the
\* token-output-table requirement exactly when it is in the list of C32; a
\* non-exempt input without a record never passes, and fails with
\* SlpMissingInputRecord when its source is of a supported token type, the
\* burn arguments are consistent and no earlier input has an unknown or
\* unsupported source; SlpMissingInputRecord is raised for no other reason.
C32_RecordRequirement ==
    (Called /\ require_tx_in_wallet) =>
        /\ \A i \in Inputs : RecordMissing(i) =>
              /\ result # ReturnTrue
              /\ (/\ ArgsConsistent
                  /\ \A j \in 1 .. i : SourceKnown(j) /\ ~SourceUnsupported(j))
                 => result.kind = "SlpMissingInputRecord"
        /\ result.kind = "SlpMissingInputRecord" =>
              \E i \in Inputs : RecordMissing(i) /\ ~SourceUnsupported(i)
\* An input spent at an index that is neither 1 nor the baton passes step 1
\* without a record, the baton index spent by the next input does not.
C32_Witness ==
    /\ Called /\ require_tx_in_wallet /\ Len(tx.inputs) = 2
    /\ SourceKnown(1) /\ SourceKnown(2)
    /\ SourceOfInput(1) = MintMsg("tA", Some(2), 1) /\ tx.inputs[1].prevout_n = 3
    /\ ~HasRecord(1) /\ ExemptAsListed(1)
    /\ SourceOfInput(2) = GenesisMsg(Some(2), 0) /\ tx.inputs[2].prevout_n = 2
    /\ RecordMissing(2)
    /\ result.kind = "SlpMissingInputRecord"

\* ------------------------------------------------------------- MINT inputs
IsMintTx == Msg.transaction_type = "MINT"
\* Input i has a record whose quantity is neither 0 nor the baton marker.
NonBatonInput(i) == HasRecord(i) /\ RecordOf(i).qty \notin {0, MINT_BATON}
\* Input i has a baton record of another token id than the declared one.
WrongBaton(i) ==
    /\ HasRecord(i)
    /\ RecordOf(i).qty = MINT_BATON
    /\ RecordOf(i).token_id # Msg.token_id_hex
MintInputsClean == \A i \in Inputs : ~NonBatonInput(i) /\ ~WrongBaton(i)

\* C33: a MINT passes only if every recorded input is of quantity 0 or a
\* baton of the declared token id; where the input loop of the MINT is
\* reached, the first input that is a non-baton record raises
\* SlpNonMintInput and the first that is a baton of another token id raises
\* SlpWrongTokenID, and a MINT whose recorded inputs are batons of the
\* declared token id (or of quantity 0) raises neither.
C33_MintInputs ==
    (Called /\ IsMintTx) =>
        /\ result = ReturnTrue => MintInputsClean
        /\ ReachesStep3 =>
              /\ \A i \in Inputs :
                    (\A j \in 1 .. i - 1 : ~NonBatonInput(j) /\ ~WrongBaton(j)) =>
                        /\ NonBatonInput(i) => result.kind = "SlpNonMintInput"
                        /\ WrongBaton(i) => result.kind = "SlpWrongTokenID"
              /\ MintInputsClean =>
                    result.kind \notin {"SlpNonMintInput", "SlpWrongTokenID"}
\* A baton of the declared token id followed by a baton of another one.
C33_Witness ==
    /\ Called /\ IsMintTx /\ Len(tx.inputs) = 2
    /\ HasRecord(1) /\ RecordOf(1) = Rec("tA", MINT_BATON)
    /\ WrongBaton(2)
    /\ result.kind = "SlpWrongTokenID"

\* ------------------------------------------------------------- burn list coverage
\* C34: with a burn list, check_tx_slp passes only if every coin of the
\* list is spent by an input of the candidate, and a candidate that reaches
\* step 3 with a listed coin it does not spend does not pass, whatever its
\* kind.  The only test of the list against the inputs is the loop of lines
\* 99-106, in the branch of a candidate without token metadata.
C34_EveryListedCoinSpent ==
    (Passed /\ BurnListGiven) => \A k \in DOMAIN coins_to_burn : Spent(k)

\* ------------------------------------------------------------- no silent burn
\* The value of the record input i spends is carried into what the
\* candidate declares: an integer quantity of the declared token id into
\* the outputs of a SEND, a baton of the declared token id into a MINT.
ValueCarried(i) ==
    IF IsSendTx
    THEN IsInt(RecordOf(i).qty) /\ RecordOf(i).token_id = Msg.token_id_hex
    ELSE IF IsMintTx
    THEN RecordOf(i).qty = MINT_BATON /\ RecordOf(i).token_id = Msg.token_id_hex
    ELSE FALSE

\* C35: without a burn list, check_tx_slp passes only if the value of every
\* recorded input of nonzero quantity is carried into the declared outputs
\* (and, for a SEND, the input sum equals the declared sum); in particular
\* a SEND that spends a 'MINT_BATON' record of its token id does not pass.
C35_NoSilentBurn ==
    (Passed /\ ~BurnListGiven) =>
        /\ \A i \in Inputs : (HasRecord(i) /\ RecordOf(i).qty # 0) => ValueCarried(i)
        /\ IsSendTx => InputTokenSum = DeclaredOutputSum

\* ------------------------------------------------------------- parent gate
\* C36: no node of an NFT-child job, a SEND node or a node of own
\* contribution 0 included, is decided Valid by validate while the parent
\* validity of the job is not Valid(1).
C36_ValidOnlyWithValidParent ==
    (ValidateDone /\ job.is_child /\ IsValid) => call.nft_parent_validity = 1

\* The quantity a group-token transaction declares for its output n.
QuantityAt(m, n) ==
    IF m.transaction_type = "GENESIS"
    THEN IF n = 1 THEN m.initial_token_mint_quantity ELSE 0
    ELSE IF m.transaction_type = "MINT"
    THEN IF n = 1 THEN m.additional_token_quantity ELSE 0
    ELSE IF n < Len(m.token_output) THEN m.token_output[n + 1] ELSE 0

\* C37: a child GENESIS node is decided Valid only if the parent declares a
\* quantity of at least 1 for the very output the child genesis' first
\* input spends, and that output is not output 0.
C37_SpentOutputCarriesGroupToken ==
    (GenesisNodeCall /\ IsValid /\ ParentKnown) =>
        /\ SpentIndex # 0
        /\ QuantityAt(CallParentMsg, SpentIndex) >= 1

\* ------------------------------------------------------------- stable decisions
\* validate has returned for the SEND root node after the graph resolved
\* inputs of it; Before is the input list and the decision before that.
DecidedAgain ==
    /\ ValidateDone
    /\ call.node = "root"
    /\ call.myinfo # GENESIS
    /\ job.resolved_from # None
    /\ call.inputs_info = job.root.inputs_info
Before == job.resolved_from[1]

\* C38 as claimed: a decision Valid or Invalid(3) for a SEND node is the
\* decision for every list obtained by resolving Unknown inputs, and
\* validate does not raise for it.
C38_ClaimedStableDecision ==
    (DecidedAgain /\ Before.ret \in {Valid, Invalid(3)}) => ret = Before.ret

\* C38 amended: Invalid(3) stays Invalid(3); Valid stays Valid, except that
\* the electroncash validator raises once the Valid input quantity of a
\* node of own contribution above 0 exceeds 1.
C38_StableDecision ==
    DecidedAgain =>
        /\ Before.ret = Invalid(3) => ret = Invalid(3)
        /\ Before.ret = Valid =>
              IF OfElectroncash /\ call.myinfo > 0 /\ CallInputSum({1}) > 1
              THEN IsRaise("Exception")
              ELSE ret = Valid

\* A node of one unit with a Valid and an Unknown input was Valid; with the
\* second input resolved Valid the call raises.
C38_Witness ==
    /\ DecidedAgain /\ OfElectroncash
    /\ call.myinfo = 1
    /\ Before.ret = Valid
    /\ Before.inputs_info = <<[validity |-> 1, qty |-> 1], [validity |-> 0, qty |-> 1]>>
    /\ call.inputs_info = <<[validity |-> 1, qty |-> 1], [validity |-> 1, qty |-> 1]>>
    /\ IsRaise("Exception")

\* ------------------------------------------------------------- job class and validator
\* The validator of the graph a queued job works on.
ValidatorOfJob(j) == (CHOOSE g \in graphs : g.id = j.graph).validator

\* C39: every job that GraphContext_NFT1.make_job creates and queues is a
\* ValidationJobNFT1Child if and only if the validator of its graph is
\* Validator_NFT1 (so that Validator_NFT1.validate always finds an NFT-child
\* job as the manager's current job).
C39_ChildJobIffChildValidator ==
    OfElectroncash =>
        \A j \in queued :
            (j.class = "ValidationJobNFT1Child") <=> (ValidatorOfJob(j) = "Validator_NFT1")

\* ------------------------------------------------------------- slpvalidate
\* C31: for a known transaction of token type 1, 129 or 65, slpvalidate ends
\* by returning the validity name of the target, and then the completion
\* callback of the job has fired, or by returning the job when the wait of
\* three seconds elapsed first; it ends in no other way.
C31_NameOrJobHandle ==
    (call.op = "slpvalidate" /\ call.found /\ call.pc = "done") =>
        /\ ret.kind = Returned("job").kind
        /\ \/ ret.value = "job" /\ ~call.fired
           \/ ret.value = ValidityName(call.validity) /\ call.fired

\* ------------------------------------------------------------- unpausing
\* C40: in the lib validator every child job that validate_NFT_parent has
\* paused is unpaused later, whatever the parent transaction is and whatever
\* validity the nested parent job ends with, provided the network answers
\* every request with the transaction asked for.
C40_PausedJobUnpaused ==
    (job.pc = "paused") ~> (job.pc = "idle" \/ job.error_response # None)

====
